---------------------------- MODULE Spec2Model ----------------------------
(***************************************************************************)
(* A model of the game-sage-agent Bilibili harvesting pipeline:            *)
(*                                                                         *)
(*   - BilibiliTool._arun (src/tools/bilibili_tool.py): discovery, one     *)
(*     job per discovered video, the as_completed collection loop, the    *)
(*     summarising assembly and the asyncio.wait_for deadline;             *)
(*   - BilibiliCommentsCrawler (src/utils/bilibili_utils/                  *)
(*     comments_crawler.py): resolve, root pagination, the reply-thread    *)
(*     tasks and the semaphore every request goes through.                 *)
(*                                                                         *)
(* Both run on one asyncio event loop: a step of the model is what one     *)
(* task does between two suspension points (await), so every action is    *)
(* the code from one await to the next.                                    *)
(***************************************************************************)
EXTENDS Integers, Sequences, FiniteSets, TLC

(***************************************************************************)
(* Bounds of the model (the configuration values live in configs/, which   *)
(* the functions import; the model fixes small ones).                      *)
(***************************************************************************)
\* most videos the searcher returns (BILIBILI_SEARCH_RESULTS_NUM)
MaxVideos == 2
\* permits of the crawler's semaphore (BILIBILI_COMMENTS_MAX_CONCURRENT_REQUESTS)
MaxConcurrentRequests == 2
\* attempts per request (BILIBILI_COMMENTS_MAX_RETRIES)
MaxRetries == 2
\* root comments per page asked for (BILIBILI_COMMENTS_COMMENT_PAGE_SIZE)
PageSize == 2
\* cap on root comments (BILIBILI_COMMENTS_MAX_NUM)
MaxNum == 3
\* cap on replies per root comment (BILIBILI_COMMENTS_MAX_REPLIES_PER_COMMENT)
MaxRepliesPerComment == 2
\* most replies the upstream puts on one reply page
MaxReplyPageLen == 2
\* the get_comments calls made on one crawler
MaxCalls == 5
\* comments_crawler.py line 201
sub_comment_page_size == 10

NONE == "none"

VARIABLES
    \* ---- BilibiliTool._arun ----
    pc,                   \* where _arun / full_tool_operation is suspended;
                          \* "returned", or "raised": left by an exception
    llm,                  \* core.llm.llm is an instance (TRUE) or None (FALSE)
    cookies,              \* async_load_cookies returned a non-empty bundle
    search_results_urls,  \* the videos searcher.search returned
    job,                  \* per video: the _process_single_video task
    ext,                  \* per video: the get_video_info coroutine of its gather
    har,                  \* per video: the get_comments coroutine of its gather
    comment_info,         \* per video: what get_comments returned
    doneq,                \* as_completed's queue of finished job tasks
    yielded,              \* how many futures the for loop has awaited to the end
    partial_results_list, \* the accumulator
    individual_processed_texts, \* _assemble_outputs' list, llm_summary=True
    summaryCalls,         \* the llm.ainvoke calls _llm_summary has started
                          \* (line 91); the call get_video_info makes to
                          \* correct a transcript is part of the extractor
    timedOut,             \* the wait_for timer has fired
    artifact,             \* what _arun returned
    \* ---- history of the run, read by the properties only ----
    searchOutcome,        \* how searcher.search ended
    atDeadline,           \* the jobs running / completed when the timer fired
    summaryAfterDeadline, \* _llm_summary started an llm.ainvoke call (line
                          \* 91) after the timer fired
    completion,           \* the jobs in the order their tasks finished
    caught,               \* the except clause of _arun that ran: "TimeoutError"
                          \* (line 215), "Exception" (line 225), or none
    \* ---- one BilibiliCommentsCrawler and its get_comments call ----
    semaphore,            \* self.semaphore: the permits that are free
    holding,              \* per task: the permits it has acquired and not
                          \* given back (it is inside `async with`)
    tpc,                  \* per task: where it is suspended; "done": it has
                          \* returned; "cancelled": it ended with the
                          \* CancelledError
    phase,                \* what get_comments is requesting: "resolve", "page"
    attempt,              \* per task: the attempt of its retry loop (from 0)
    page_num,             \* per task: the page it is at
    main_comments,        \* len(main_comments_data)
    ntasks,               \* len(tasks_for_sub_comments)
    fetched_count,        \* per reply task: replies collected
    result_error,         \* result['error'] of get_comments
    \* ---- history of the call, read by the properties only ----
    root_pages_asked,     \* the root pages a request was sent for, in order
    root_pages_served,    \* the root pages answered with at least one comment
    \* ---- history of the crawler, read by the properties only ----
    earlier_results,      \* what its earlier get_comments calls returned, with
                          \* the permits free at the return
    requests_sent,        \* the requests sent (session.get), where counted
    cancelled_holding,    \* the tasks a cancellation ended inside
                          \* `async with self.semaphore`
    \* ---- get_comments and _fetch_sub_comments, with what they collect ----
    hpc,                  \* where get_comments is: "idle", "paging", "gather",
                          \* "done"; "direct": _fetch_sub_comments called alone
    max_replies,          \* BILIBILI_COMMENTS_MAX_REPLIES_PER_COMMENT
    root_page_num,        \* get_comments' page_num
    main_comments_data,   \* the accepted root comments
    tasks_for_sub_comments, \* per task: the root_rpid it fetches replies for
    rpid_to_main_comment_index, \* the dict's keys, in insertion order
    sub_pc,               \* per reply task: "unstarted", "fetching", "returned",
                          \* "failed" (returned after a page used up its
                          \* retries), "raised" (ended with an exception)
    sub_page_num,         \* per reply task: _fetch_sub_comments' page_num
    sub_comments,         \* per reply task: the replies it has collected
    final_comment_list,   \* result['comments']
    comments_error,       \* result['error']
    \* ---- history of the harvest, read by the properties only ----
    received,             \* the first root comments passing the filter, as served
    root_end,             \* why the root page loop was left
    upstream_more,        \* the cap is not met and the listing holds a passing
                          \* root on a later page
    served,               \* direct call: the replies its pages served
    all_ok,               \* direct call: every page request succeeded
    \* ---- one request and its retry loop ----
    rq_kind,              \* "aid", "main", "sub": the function that sends it
    max_retries,          \* BILIBILI_COMMENTS_MAX_RETRIES
    rq_pc,                \* "idle", "inflight", "backoff", "ended"
    rq_attempt,           \* the loop's attempt (from 0)
    rq_delays,            \* the backoff sleeps so far, in units of
                          \* BILIBILI_COMMENTS_RETRY_DELAY_SECONDS
    rq_outcomes,          \* the answers so far
    rq_result,            \* what the function returned: "data" or "None"
    rq_caller,            \* what the caller of the function did with its value
    rq_permit             \* the function is inside `async with self.semaphore`

runVars == <<pc, llm, cookies, search_results_urls, job, ext, har, comment_info,
             doneq, yielded, partial_results_list, individual_processed_texts,
             summaryCalls, timedOut, artifact, searchOutcome, atDeadline,
             summaryAfterDeadline, completion, caught>>

crawlVars == <<semaphore, holding, tpc, phase, attempt, page_num, main_comments, ntasks,
               fetched_count, result_error, root_pages_asked,
               root_pages_served>>

harvestVars == <<hpc, max_replies, root_page_num, main_comments_data,
                 tasks_for_sub_comments, rpid_to_main_comment_index, sub_pc,
                 sub_page_num, sub_comments, final_comment_list, comments_error,
                 received, root_end, upstream_more, served, all_ok>>

requestVars == <<rq_kind, max_retries, rq_pc, rq_attempt, rq_delays,
                 rq_outcomes, rq_result, rq_caller, rq_permit>>

callVars == <<earlier_results, requests_sent, cancelled_holding>>

vars == <<runVars, crawlVars, harvestVars, requestVars, callVars>>

\* what the actions of one part leave alone
notRunVars == <<crawlVars, harvestVars, requestVars, callVars>>
notCrawlVars == <<runVars, harvestVars, requestVars, callVars>>
notHarvestVars == <<runVars, crawlVars, requestVars, callVars>>
notRequestVars == <<runVars, crawlVars, harvestVars, callVars>>

\* task 0 is the get_comments coroutine; task i > 0 is the i-th task it
\* created for _fetch_sub_comments (one per accepted root with replies)
Tasks == 0..MaxNum
ReplyTasks == 1..MaxNum

Videos == 1..MaxVideos

\* the videos of this run: search_results_urls, one job each
Jobs == {search_results_urls[i] : i \in 1..Len(search_results_urls)}

\* what a variable holds before it is assigned, and Python's None
NoArtifact == [kind |-> NONE, items |-> <<>>]
NoCommentInfo == [comments |-> NONE, error |-> NONE]
NoSnapshot == [running |-> {}, completed |-> {}, at |-> "never"]

Range(s) == {s[i] : i \in 1..Len(s)}

Last(s) == s[Len(s)]

IsPrefix(s, t) == Len(s) <= Len(t) /\ SubSeq(t, 1, Len(s)) = s

-----------------------------------------------------------------------------
(***************************************************************************)
(* The pure functions of bilibili_tool.py.                                 *)
(***************************************************************************)

\* line 189-191: a missing comment result is replaced by a placeholder
SafeCommentInfo(ci) ==
    IF ci = NoCommentInfo
    THEN [comments |-> "placeholder", error |-> "not_attempted"]
    ELSE ci

\* _format_single_output: the rendered text of one video, here the fields
\* that go into the template
format_single_output(video, ci) ==
    [video    |-> video,
     comments |-> ci.comments,
     comment_info_error |-> IF ci.error = NONE THEN "no_error" ELSE ci.error]

\* a changed line 194: the list is replaced, not appended to
AccumulateReset(list, out) == <<out>>

\* line 194: partial_results_list.append(formatted_output)
Accumulate(list, out) == Append(list, out)

\* _assemble_outputs, the part after the LLM calls: texts is
\* individual_processed_texts (used when llm_summary)
assemble_outputs(video_output_list, llm_summary, texts) ==
    IF video_output_list = <<>>
    THEN IF llm_summary THEN [kind |-> "NothingToSummarize", items |-> <<>>]
                        ELSE [kind |-> "NothingFound", items |-> <<>>]
    ELSE IF ~llm_summary
         THEN [kind |-> "Raw", items |-> video_output_list]
         ELSE [kind |-> "Summary", items |-> texts]

\* line 212-227: the strings _arun returns on its timeout and error paths
TimeoutArtifact(list) ==
    IF list # <<>>
    THEN [kind |-> "TimeoutPartial",
          items |-> assemble_outputs(list, FALSE, <<>>).items]
    ELSE [kind |-> "TimeoutEmpty", items |-> <<>>]

\* the artifact is the timeout-marked output (flagged truncated)
Truncated(a) == a.kind \in {"TimeoutPartial", "TimeoutEmpty"}

\* the rendered videos an artifact was assembled from
VideosOf(a) == [i \in 1..Len(a.items) |-> a.items[i].video]

AccVideos == [i \in 1..Len(partial_results_list) |-> partial_results_list[i].video]

\* a changed line 41: the crawler is created without looking at the cookies
CrawlerCreatedAlways(has_cookies) == TRUE

\* line 41-43: if cookies: the crawler is created and its get_comments is
\* gathered; else comment_task is asyncio.sleep(0, result=None)
CrawlerCreated(has_cookies) == has_cookies

\* a changed line 172: the empty search result is not noticed
SearchEmptyNever(urls) == FALSE

\* line 172: if not search_results_urls
SearchEmpty(urls) == urls = <<>>

\* a changed line 204: the empty accumulator is not noticed
AccumulatorEmptyNever(list) == FALSE

\* line 204: if not partial_results_list
AccumulatorEmpty(list) == list = <<>>

\* line 198-200: the CancelledError handler of the loop ends it (break)
CancelEndsLoop == TRUE

\* a changed line 202: the Exception handler breaks out of the loop
ExceptionBreaksLoop == TRUE

\* line 201-202: the Exception handler of the loop ends it (it does not:
\* the error is logged and the loop goes on)
ExceptionEndsLoop == FALSE


\* _llm_summary: the text of one video after the LLM call; outcome is "ok",
\* "raised" (line 94-97: the raw text is kept) or "skipped" (llm is None)
llm_summary(content, outcome) ==
    [video |-> content.video,
     text  |-> IF outcome = "ok" THEN "summary" ELSE "raw"]

-----------------------------------------------------------------------------
(***************************************************************************)
(* BilibiliTool._arun and its inner full_tool_operation.                   *)
(***************************************************************************)

RunInit ==
    /\ pc = "idle"
    /\ llm \in BOOLEAN
    /\ cookies = FALSE
    /\ search_results_urls = <<>>
    /\ job = [v \in Videos |-> "unstarted"]
    /\ ext = [v \in Videos |-> "unstarted"]
    /\ har = [v \in Videos |-> "unstarted"]
    /\ comment_info = [v \in Videos |-> NoCommentInfo]
    /\ doneq = <<>>
    /\ yielded = 0
    /\ partial_results_list = <<>>
    /\ individual_processed_texts = <<>>
    /\ summaryCalls = 0
    /\ timedOut = FALSE
    /\ artifact = NoArtifact
    /\ searchOutcome = "pending"
    /\ atDeadline = NoSnapshot
    /\ summaryAfterDeadline = FALSE
    /\ completion = <<>>
    /\ caught = NONE

\* a changed line 214: the value is kept but _arun does not return
ReturnNotFinal(a) ==
    /\ pc' = pc
    /\ artifact' = a

\* _arun returns a: wait_for hands back full_tool_operation's value (line 214),
\* or one of the except branches builds it (line 215-227)
Return(a) ==
    /\ pc' = "returned"
    /\ artifact' = a

\* a changed line 225: only the TimeoutError is caught
HandledTimeoutOnly(exc) == exc = "TimeoutError"

\* line 215, 225: the except clauses around wait_for: asyncio.TimeoutError,
\* then Exception
Handled(exc) == exc \in {"TimeoutError", "Exception"}

\* what a failing collaborator raises: the builtin TimeoutError (which
\* asyncio.TimeoutError is), or another Exception
Exceptions == {"TimeoutError", "Exception"}

\* line 213, asyncio.wait_for after its timer fired and cancelled
\* full_tool_operation, which ended with `ended`: a CancelledError becomes
\* TimeoutError, another exception is passed on as it is
TimedOutWith(ended) ==
    IF ended = "CancelledError" THEN "TimeoutError" ELSE ended

\* line 212-227: exc leaves wait_for.  A TimeoutError, raised by wait_for or
\* by a collaborator, is caught first (215) and answered with the timeout
\* string; another Exception is caught at 225 and answered with the error
\* string; what neither clause catches leaves _arun.
Leave(exc) ==
    IF ~Handled(exc)
    THEN /\ pc' = "raised"
         /\ UNCHANGED <<artifact, caught>>
    ELSE /\ caught' = exc
         /\ Return(IF exc = "TimeoutError"
                   THEN TimeoutArtifact(partial_results_list)
                   ELSE [kind |-> "Error", items |-> <<>>])

\* line 204-210, run without suspension after the loop ends: the empty check,
\* then _assemble_outputs(llm_summary=True) up to its first llm.ainvoke.
\* fired: the timer has fired by now.
AfterLoop(list, fired) ==
    IF AccumulatorEmpty(list)
    THEN /\ Return([kind |-> "NothingProcessed", items |-> <<>>])
         /\ UNCHANGED <<individual_processed_texts, summaryCalls, summaryAfterDeadline>>
    ELSE IF list = <<>> \/ ~llm
    THEN \* no await in _assemble_outputs: line 101-105, or line 82-84 per video
         /\ individual_processed_texts' =
                [i \in 1..Len(list) |-> llm_summary(list[i], "skipped")]
         /\ Return(assemble_outputs(list, TRUE, individual_processed_texts'))
         /\ UNCHANGED <<summaryCalls, summaryAfterDeadline>>
    ELSE \* line 119 -> line 91: suspended in the first llm.ainvoke
         /\ pc' = "summarizing"
         /\ individual_processed_texts' = <<>>
         /\ summaryCalls' = summaryCalls + 1
         /\ summaryAfterDeadline' = (summaryAfterDeadline \/ fired)
         /\ UNCHANGED artifact

\* cookies_tool.py line 74-101, called at line 168: async_load_cookies raises.
\* Reading the file is inside a try (82-88), looking for it is not: an
\* OSError of file_path.exists() (78) leaves full_tool_operation and wait_for.
LoadCookiesRaise(exc) ==
    /\ pc = "idle"
    /\ Leave(exc)
    /\ UNCHANGED <<searchOutcome, llm, cookies, search_results_urls, job, ext,
                   har, comment_info, doneq, yielded, partial_results_list,
                   individual_processed_texts, summaryCalls, timedOut,
                   atDeadline, summaryAfterDeadline>>
    /\ UNCHANGED completion
    /\ UNCHANGED notRunVars

\* line 152-170: _arun is called; cookies are loaded (async_load_cookies has no
\* await) and the search starts
Arun(c) ==
    /\ pc = "idle"
    /\ pc' = "searching"
    /\ cookies' = c
    /\ UNCHANGED <<searchOutcome, llm, search_results_urls, job, ext, har, comment_info, doneq,
                   yielded, partial_results_list, individual_processed_texts,
                   summaryCalls, timedOut, artifact, atDeadline, summaryAfterDeadline>>
    /\ UNCHANGED <<completion, caught>>
    /\ UNCHANGED notRunVars

\* line 170-185: searcher.search returns n urls; none: the 'no results' string;
\* else one _process_single_video per url, all started by as_completed, each
\* gathering get_comments (with cookies only, line 41-43) and get_video_info
SearchReturn(n) ==
    /\ pc = "searching"
    /\ searchOutcome' = "returned"
    /\ search_results_urls' = [i \in 1..n |-> i]
    /\ IF SearchEmpty(search_results_urls')
       THEN /\ Return([kind |-> "NoResults", items |-> <<>>])
            /\ UNCHANGED <<job, ext, har>>
       ELSE IF n = 0
       THEN \* line 181-182: no coroutine was created
            /\ Return([kind |-> "NoTasks", items |-> <<>>])
            /\ UNCHANGED <<job, ext, har>>
       ELSE /\ pc' = "collecting"
            /\ job' = [v \in Videos |-> IF v <= n THEN "running" ELSE job[v]]
            /\ ext' = [v \in Videos |-> IF v <= n THEN "running" ELSE ext[v]]
            /\ har' = [v \in Videos |->
                          IF v <= n THEN (IF CrawlerCreated(cookies)
                                          THEN "running" ELSE "absent")
                                    ELSE har[v]]
            /\ UNCHANGED artifact
    /\ UNCHANGED <<llm, cookies, comment_info, doneq, yielded,
                   partial_results_list, individual_processed_texts, summaryCalls,
                   timedOut, atDeadline, summaryAfterDeadline>>
    /\ UNCHANGED <<completion, caught>>
    /\ UNCHANGED notRunVars

\* searcher.py line 21-23, 40: a failure of async_playwright, chromium.launch
\* or new_context (before search's try) or of browser.close() (in its
\* finally) leaves search, full_tool_operation and wait_for with exc, and one
\* of the except clauses of line 215-227 answers it
SearchRaise(exc) ==
    /\ pc = "searching"
    /\ searchOutcome' = "raised"
    /\ Leave(exc)
    /\ UNCHANGED <<llm, cookies, search_results_urls, job, ext, har, comment_info,
                   doneq, yielded, partial_results_list,
                   individual_processed_texts, summaryCalls, timedOut, atDeadline,
                   summaryAfterDeadline>>
    /\ UNCHANGED completion
    /\ UNCHANGED notRunVars

\* the steps of BilibiliSearcher.search that may fail (searcher.py line
\* 21-40): entering or leaving async_playwright, and each call it awaits
SearchSteps ==
    {"async_playwright", "launch", "new_context", "add_cookies", "new_page",
     "goto", "wait_for_selector", "wait_for_timeout", "extract_video_links",
     "close"}

\* searcher.py line 25-38: the steps inside `try`, whose failure
\* `except Exception` turns into links = [].  browser.close() is in the
\* finally (line 39-40), which no except clause covers.
InsideTry(step) ==
    step \notin {"async_playwright", "launch", "new_context", "close"}

\* searcher.py line 21-43: a step of search fails with exc: inside the try
\* the search returns the empty list, outside the exception leaves search.
\* Cookies are added only when there are any (line 26).  browser.close()
\* runs, and may fail, whether the try ended well or not.
SearchFails(step, exc) ==
    /\ step = "add_cookies" => cookies
    /\ IF InsideTry(step) THEN SearchReturn(0) ELSE SearchRaise(exc)

\* line 45: the gather of _process_single_video is over: a child has
\* raised, or every child has returned
GatherOver(e, h) == h = "raised" \/ (e = "done" /\ h \in {"done", "absent"})

\* line 45-52, line 185: some turns of the event loop after its gather is
\* over, the task of _process_single_video ends, with the exception of the
\* child or with its result, and as_completed puts it into its queue
JobEnds(v) ==
    /\ job[v] = "running"
    /\ GatherOver(ext[v], har[v])
    /\ job' = [job EXCEPT ![v] = IF har[v] = "raised" THEN "failed" ELSE "ok"]
    /\ doneq' = Append(doneq, v)
    /\ completion' = Append(completion, v)
    /\ UNCHANGED caught
    /\ UNCHANGED <<searchOutcome, pc, llm, cookies, search_results_urls, ext, har,
                   comment_info, yielded, partial_results_list,
                   individual_processed_texts, summaryCalls, timedOut, artifact,
                   atDeadline, summaryAfterDeadline>>
    /\ UNCHANGED notRunVars

\* video_info_extractor.py line 254-354: get_video_info returns its result
\* dict (every Exception is turned into result['error']).  Whatever it awaits
\* before, the llm.ainvoke of _correct_transcript (line 246) included, is
\* inside ext[v] = "running" and is not counted in summaryCalls.
ExtractorFinish(v) ==
    /\ ext[v] = "running"
    /\ ext' = [ext EXCEPT ![v] = "done"]
    /\ UNCHANGED <<job, doneq, completion, caught>>
    /\ UNCHANGED <<searchOutcome, pc, llm, cookies, search_results_urls, har, comment_info,
                   yielded, partial_results_list, individual_processed_texts,
                   summaryCalls, timedOut, artifact, atDeadline, summaryAfterDeadline>>
    /\ UNCHANGED notRunVars

\* comments_crawler.py line 332-452: get_comments returns its result dict,
\* with comments or with error set
HarvesterFinish(v, ci) ==
    /\ har[v] = "running"
    /\ har' = [har EXCEPT ![v] = "done"]
    /\ comment_info' = [comment_info EXCEPT ![v] = ci]
    /\ UNCHANGED <<job, doneq, completion, caught>>
    /\ UNCHANGED <<searchOutcome, pc, llm, cookies, search_results_urls, ext, yielded,
                   partial_results_list, individual_processed_texts, summaryCalls,
                   timedOut, artifact, atDeadline, summaryAfterDeadline>>
    /\ UNCHANGED notRunVars

\* get_comments raises (it catches nothing itself: e.g. line 398 on a
\* non-numeric rcount)
HarvesterRaise(v) ==
    /\ har[v] = "running"
    /\ har' = [har EXCEPT ![v] = "raised"]
    /\ UNCHANGED <<job, doneq, completion, caught>>
    /\ UNCHANGED <<searchOutcome, pc, llm, cookies, search_results_urls, ext, comment_info,
                   yielded, partial_results_list, individual_processed_texts,
                   summaryCalls, timedOut, artifact, atDeadline, summaryAfterDeadline>>
    /\ UNCHANGED notRunVars

\* a changed line 201-202: the job that failed is started again
JobRetried(state) == IF state = "failed" THEN "running" ELSE state

\* line 187-202: the task that was awaited is done with, whether its result
\* was appended (194) or its exception logged (201-202)
JobAwaited(state) == state

\* a changed line 185: the jobs are awaited in the order of the search result
NextInDiscoveryOrder(queue) ==
    CHOOSE v \in Range(queue) : \A w \in Range(queue) : v <= w

\* line 185, 187: asyncio.as_completed hands out the finished tasks in the
\* order they finished
NextCompleted(queue) == Head(queue)

\* line 185-202, one iteration of the loop: the next finished job is awaited;
\* its result is formatted and appended, or its exception is logged.  After
\* the last one the code runs on to line 204-210.
Collect ==
    /\ pc = "collecting"
    /\ doneq # <<>>
    /\ LET v == NextCompleted(doneq)
           ok == job[v] = "ok"
           list == IF ok
                   THEN Accumulate(partial_results_list,
                            format_single_output(v, SafeCommentInfo(comment_info[v])))
                   ELSE partial_results_list
           ends == yielded + 1 = Len(search_results_urls) \/ (~ok /\ ExceptionEndsLoop)
       IN /\ doneq' = SelectSeq(doneq, LAMBDA w : w # v)
          /\ job' = [job EXCEPT ![v] = JobAwaited(job[v])]
          /\ yielded' = yielded + 1
          /\ partial_results_list' = list
          /\ IF ends
             THEN AfterLoop(list, timedOut)
             ELSE UNCHANGED <<pc, artifact, individual_processed_texts, summaryCalls,
                              summaryAfterDeadline>>
    /\ UNCHANGED <<searchOutcome, llm, cookies, search_results_urls, ext, har, comment_info,
                   timedOut, atDeadline>>
    /\ UNCHANGED <<completion, caught>>
    /\ UNCHANGED notRunVars

\* what the properties remember of the moment the timer fires
Snapshot ==
    [running   |-> {v \in Jobs : job[v] = "running"},
     completed |-> {v \in Jobs : job[v] = "ok"},
     at        |-> pc]

\* what search ends with when it is cancelled: the CancelledError (its
\* except Exception does not catch it), or the exception that
\* browser.close() in the finally (searcher.py line 39-40) or the exit of
\* async_playwright (line 21) raises while the CancelledError unwinds
Unwinds == {"CancelledError"} \cup Exceptions

\* line 213: the wait_for timer fires while search is awaited.  search and
\* full_tool_operation end with `ended`; wait_for raises TimeoutError for
\* the CancelledError (line 215-224) and passes another exception on (line
\* 225-227).
DeadlineInSearch(ended) ==
    /\ pc = "searching"
    /\ searchOutcome' = "cancelled"
    /\ ~timedOut
    /\ timedOut' = TRUE
    /\ atDeadline' = Snapshot
    /\ Leave(TimedOutWith(ended))
    /\ UNCHANGED <<llm, cookies, search_results_urls, job, ext, har, comment_info,
                   doneq, yielded, partial_results_list,
                   individual_processed_texts, summaryCalls, summaryAfterDeadline>>
    /\ UNCHANGED completion
    /\ UNCHANGED notRunVars

\* line 213: the timer fires while the loop awaits the next finished job
\* (line 187), and the CancelledError reaches that await before the loop has
\* taken a job: one whose children have returned, whose task has ended or
\* which is in the queue already is not appended.  The CancelledError is
\* caught at line 198: break, and full_tool_operation runs on to line 204-210.
\* The job tasks as_completed started are not cancelled.
DeadlineInCollect ==
    /\ pc = "collecting"
    /\ ~timedOut
    /\ timedOut' = TRUE
    /\ atDeadline' = Snapshot
    /\ IF CancelEndsLoop
       THEN AfterLoop(partial_results_list, TRUE)
       ELSE UNCHANGED <<pc, artifact, individual_processed_texts, summaryCalls,
                        summaryAfterDeadline>>
    /\ UNCHANGED <<searchOutcome, llm, cookies, search_results_urls, job, ext, har, comment_info,
                   doneq, yielded, partial_results_list>>
    /\ UNCHANGED <<completion, caught>>
    /\ UNCHANGED notRunVars

\* line 213: the timer fires while llm.ainvoke is awaited (line 91).  The
\* CancelledError is no Exception (line 94), leaves _assemble_outputs and
\* full_tool_operation; wait_for raises TimeoutError: line 215-224.
DeadlineInSummary ==
    /\ pc = "summarizing"
    /\ ~timedOut
    /\ timedOut' = TRUE
    /\ atDeadline' = Snapshot
    /\ Leave(TimedOutWith("CancelledError"))
    /\ UNCHANGED <<searchOutcome, llm, cookies, search_results_urls, job, ext, har, comment_info,
                   doneq, yielded, partial_results_list,
                   individual_processed_texts, summaryCalls, summaryAfterDeadline>>
    /\ UNCHANGED completion
    /\ UNCHANGED notRunVars

\* line 91-97, line 116-126: llm.ainvoke answers (outcome "ok") or raises
\* ("raised"); the text is kept and the next video's call starts, or the
\* summary is assembled and returned
LlmReturn(outcome) ==
    /\ pc = "summarizing"
    /\ LET i == Len(individual_processed_texts) + 1
           texts == Append(individual_processed_texts,
                           llm_summary(partial_results_list[i], outcome))
       IN /\ individual_processed_texts' = texts
          /\ IF i = Len(partial_results_list)
             THEN /\ Return(assemble_outputs(partial_results_list, TRUE, texts))
                  /\ UNCHANGED <<summaryCalls, summaryAfterDeadline>>
             ELSE /\ summaryCalls' = summaryCalls + 1
                  /\ summaryAfterDeadline' = (summaryAfterDeadline \/ timedOut)
                  /\ UNCHANGED <<pc, artifact>>
    /\ UNCHANGED <<searchOutcome, llm, cookies, search_results_urls, job, ext, har, comment_info,
                   doneq, yielded, partial_results_list, timedOut, atDeadline>>
    /\ UNCHANGED <<completion, caught>>
    /\ UNCHANGED notRunVars

CommentInfos ==
    { [comments |-> "list", error |-> NONE],
      [comments |-> "empty", error |-> "error"] }

RunNext ==
    \/ \E c \in BOOLEAN : Arun(c)
    \/ \E exc \in Exceptions : LoadCookiesRaise(exc)
    \/ \E n \in 0..MaxVideos : SearchReturn(n)
    \/ \E step \in SearchSteps, exc \in Exceptions : SearchFails(step, exc)
    \/ \E v \in Videos : ExtractorFinish(v)
    \/ \E v \in Videos, ci \in CommentInfos : HarvesterFinish(v, ci)
    \/ \E v \in Videos : HarvesterRaise(v)
    \/ \E v \in Videos : JobEnds(v)
    \/ Collect
    \/ \E ended \in Unwinds : DeadlineInSearch(ended)
    \/ DeadlineInCollect
    \/ DeadlineInSummary
    \/ \E o \in {"ok", "raised"} : LlmReturn(o)

-----------------------------------------------------------------------------
(***************************************************************************)
(* BilibiliCommentsCrawler.get_comments: the coroutine itself (task 0) and *)
(* the reply tasks it creates.  Every request goes through self.semaphore. *)
(***************************************************************************)

Min(a, b) == IF a < b THEN a ELSE b

\* a changed line 364, 207: the page limit is one page too high
MaxPagesOneMore(cap, size) == (cap + size - 1) \div size + 1

\* line 364 and line 207: the page limit for a cap and a page size
MaxPages(cap, size) == (cap + size - 1) \div size

\* a changed semaphore: acquire never waits
CanAcquireAlways(free) == TRUE

\* asyncio.Semaphore.acquire returns only while a permit is free
\* (line 59: the semaphore; line 77, 128, 224: async with self.semaphore)
CanAcquire(free) == free > 0

\* a changed `async with`: the permit is not given back
ReleaseNever(free) == free

\* line 77, 128, 224: leaving `async with self.semaphore` gives the permit back
Release(free) == free + 1

\* line 77, 128, 224: task t leaves its `async with self.semaphore` block,
\* by return, continue, break or an exception
LeaveAsyncWith(t) ==
    /\ semaphore' = Release(semaphore)
    /\ holding' = [holding EXCEPT ![t] = @ - 1]

\* line 101, 110, 161, 173, 300, 315: attempt < MAX_RETRIES - 1
RetryLeft(a) == a < MaxRetries - 1

\* what the upstream may answer to a request
\*   "ok"          status 200, code 0
\*   "closed"      status 200, code 12002 or -404
\*   "s412"        status 412
\*   "error"       another status (line 142, 239: the status is looked at
\*                 before the code, whatever the body carries), another
\*                 code, or an empty JSON body
\*   "undecodable" response.json() raises; the handler's
\*                 `await response.text()[:100]` raises TypeError inside the
\*                 try, which the outer `except Exception` catches
\*   "neterror"    aiohttp.ClientError or asyncio.TimeoutError
Outcomes == {"ok", "closed", "s412", "error", "undecodable", "neterror"}

\* a root comment of a page: too short; accepted and without a reply task
\* (rcount = 0, or no rpid); accepted and with one (line 398: rcount > 0 and
\* an rpid)
RootKinds == {"short", "plain", "threaded"}

SeqsUpTo(S, n) == UNION {[1..k -> S] : k \in 0..n}

RootPages == SeqsUpTo(RootKinds, PageSize)

ReplyPages == SeqsUpTo({"short", "long"}, MaxReplyPageLen)

\* _process_main_replies: the comments that pass the length filter
process_main_replies(replies) == SelectSeq(replies, LAMBDA c : c # "short")

Count(seq, x) == Cardinality({i \in 1..Len(seq) : seq[i] = x})

CrawlInit ==
    /\ semaphore = MaxConcurrentRequests
    /\ holding = [t \in Tasks |-> 0]
    /\ tpc = [t \in Tasks |-> "unstarted"]
    /\ phase = "resolve"
    /\ attempt = [t \in Tasks |-> 0]
    /\ page_num = [t \in Tasks |-> 1]
    /\ main_comments = 0
    /\ ntasks = 0
    /\ fetched_count = [t \in Tasks |-> 0]
    /\ result_error = NONE
    /\ root_pages_asked = <<>>
    /\ root_pages_served = 0
    /\ earlier_results = <<>>
    /\ requests_sent = 0
    /\ cancelled_holding = {}

\* line 332-350: get_comments is called; a url without a BV id or a crawler
\* without cookies ends it at once, else _get_aid_from_bvid starts
GetComments(bvid, has_cookies) ==
    /\ tpc[0] = "unstarted"
    /\ IF ~bvid
       THEN /\ result_error' = "no_bvid"
            /\ tpc' = [tpc EXCEPT ![0] = "done"]
       ELSE IF ~has_cookies
       THEN /\ result_error' = "no_cookies"
            /\ tpc' = [tpc EXCEPT ![0] = "done"]
       ELSE /\ tpc' = [tpc EXCEPT ![0] = "acquire"]
            /\ UNCHANGED result_error
    /\ UNCHANGED <<semaphore, holding, phase, attempt, page_num, main_comments,
                   ntasks, fetched_count>>
    /\ UNCHANGED <<root_pages_asked, root_pages_served>>
    /\ UNCHANGED notCrawlVars

\* a changed line 128-129, 224-225: the sleep is put before `async with`
SleepsBeforePermit == FALSE

\* line 128-129, 224-225: `await asyncio.sleep(random.uniform(...))` is the
\* first statement inside `async with self.semaphore`
SleepsInsidePermit == TRUE

\* line 77, 128, 224: async with self.semaphore.  A resolve request is sent
\* at once (line 79); a page or reply request first sleeps the random delay
\* (line 129, 225) with the permit held.
AcquireStep(t) ==
    /\ tpc[t] = "acquire"
    /\ LET resolve == t = 0 /\ phase = "resolve"
           takes   == resolve \/ SleepsInsidePermit
       IN /\ takes => CanAcquire(semaphore)
          /\ semaphore' = IF takes THEN semaphore - 1 ELSE semaphore
          /\ holding' = [holding EXCEPT ![t] = IF takes THEN @ + 1 ELSE @]
          /\ tpc' = [tpc EXCEPT ![t] = IF resolve THEN "inflight" ELSE "jitter"]
    /\ UNCHANGED <<phase, attempt, page_num, main_comments, ntasks,
                   fetched_count, result_error>>
    /\ UNCHANGED <<root_pages_asked, root_pages_served>>

Acquire(t) == AcquireStep(t) /\ UNCHANGED notCrawlVars

\* line 129-131, 225-227: the random delay is over, the request is sent
JitterDoneStep(t) ==
    /\ tpc[t] = "jitter"
    /\ IF SleepsInsidePermit
       THEN UNCHANGED <<semaphore, holding>>
       ELSE /\ CanAcquire(semaphore)
            /\ semaphore' = semaphore - 1
            /\ holding' = [holding EXCEPT ![t] = @ + 1]
    /\ tpc' = [tpc EXCEPT ![t] = "inflight"]
    /\ UNCHANGED <<phase, attempt, page_num, main_comments, ntasks,
                   fetched_count, result_error>>
    /\ root_pages_asked' =
           IF t = 0 /\ (root_pages_asked = <<>> \/ Last(root_pages_asked) # page_num[0])
           THEN Append(root_pages_asked, page_num[0])
           ELSE root_pages_asked
    /\ UNCHANGED root_pages_served

JitterDone(t) == JitterDoneStep(t) /\ UNCHANGED notCrawlVars

\* the backoff sleep of line 102, 162, 301 is inside `async with
\* self.semaphore`; that of line 111, 174, 316 is in the except clause of the
\* try around it, entered after `async with` was left
SleepsHoldingPermit(o) == o # "neterror"

\* the retry decision after a failed attempt (tpc of the task, permits):
\* a failure reported in a response sleeps inside `async with` (permit held),
\* a network error has left it (permit free); the last attempt gives up
AfterFailure(t, held, giveup) ==
    IF RetryLeft(attempt[t])
    THEN /\ tpc' = [tpc EXCEPT ![t] = IF held THEN "backoff_held"
                                              ELSE "backoff_free"]
         /\ IF held THEN UNCHANGED <<semaphore, holding>>
                    ELSE LeaveAsyncWith(t)
    ELSE /\ tpc' = [tpc EXCEPT ![t] = giveup]
         /\ LeaveAsyncWith(t)

\* line 102, 111, 162, 174, 301, 316: the backoff sleep is over; the loop
\* goes to its next attempt (leaving `async with` when inside it)
BackoffDone(t) ==
    /\ tpc[t] \in {"backoff_held", "backoff_free"}
    /\ IF tpc[t] = "backoff_held" THEN LeaveAsyncWith(t)
                                  ELSE UNCHANGED <<semaphore, holding>>
    /\ attempt' = [attempt EXCEPT ![t] = attempt[t] + 1]
    /\ tpc' = [tpc EXCEPT ![t] = "acquire"]
    /\ UNCHANGED <<phase, page_num, main_comments, ntasks, fetched_count,
                   result_error>>
    /\ UNCHANGED <<root_pages_asked, root_pages_served>>
    /\ UNCHANGED notCrawlVars

\* line 79-119 and line 350-371: the answer to the resolve request.  An aid:
\* the first root page is asked for.  Code -404, an undecodable body or the
\* last failed attempt: get_comments returns with error set.
ResolveResponse(o) ==
    /\ tpc[0] = "inflight"
    /\ phase = "resolve"
    /\ IF o = "ok"
       THEN /\ LeaveAsyncWith(0)
            /\ phase' = "page"
            /\ attempt' = [attempt EXCEPT ![0] = 0]
            /\ tpc' = [tpc EXCEPT ![0] = "acquire"]
            /\ UNCHANGED result_error
       ELSE IF o \in {"closed", "undecodable"}
       THEN /\ LeaveAsyncWith(0)
            /\ tpc' = [tpc EXCEPT ![0] = "done"]
            /\ result_error' = "no_aid"
            /\ UNCHANGED <<phase, attempt>>
       ELSE /\ AfterFailure(0, SleepsHoldingPermit(o), "done")
            /\ result_error' = IF RetryLeft(attempt[0]) THEN result_error
                                                        ELSE "no_aid"
            /\ UNCHANGED <<phase, attempt>>
    /\ UNCHANGED <<page_num, main_comments, ntasks, fetched_count>>
    /\ UNCHANGED <<root_pages_asked, root_pages_served>>
    /\ UNCHANGED notCrawlVars

\* line 408-452: get_comments has left the page loop: it gathers the reply
\* tasks when there are any, else it assembles its result at once
LeavePageLoop(n) == IF n > 0 THEN "gather" ELSE "done"

\* a changed line 381: the empty page is not noticed
PageHasCommentsAlways(replies) == TRUE

\* line 380-383: replies = page_data.get('replies', []); if not replies: break
PageHasComments(replies) == replies # <<>>

\* line 131-181 and line 371-406: the answer to a root page request.
\* replies: the comments of the page when the answer is "ok".
PageResponse(o, replies) ==
    /\ tpc[0] = "inflight"
    /\ phase = "page"
    /\ IF o = "ok" /\ PageHasComments(replies)
       THEN LET processed == process_main_replies(replies)
                remaining == MaxNum - main_comments
                to_add    == SubSeq(processed, 1, Min(remaining, Len(processed)))
                created   == Count(to_add, "threaded")
                more      == remaining > 0 /\ page_num[0] + 1 <= MaxPages(MaxNum, PageSize)
            IN /\ LeaveAsyncWith(0)
               /\ main_comments' = IF remaining > 0
                                   THEN main_comments + Len(to_add)
                                   ELSE main_comments
               /\ ntasks' = IF remaining > 0 THEN ntasks + created ELSE ntasks
               /\ page_num' = [page_num EXCEPT ![0] =
                                  IF remaining > 0 THEN page_num[0] + 1
                                                   ELSE page_num[0]]
               /\ attempt' = [attempt EXCEPT ![0] = 0]
               /\ tpc' = [t \in Tasks |->
                             IF t = 0
                             THEN (IF more THEN "acquire" ELSE LeavePageLoop(ntasks'))
                             ELSE IF t > ntasks /\ t <= ntasks'
                             THEN "acquire"
                             ELSE tpc[t]]
               /\ UNCHANGED result_error
       ELSE IF o \in {"ok", "closed", "undecodable"}
       THEN \* no comment on the page (line 381), or page_data is None (line 372)
            /\ LeaveAsyncWith(0)
            /\ tpc' = [tpc EXCEPT ![0] = LeavePageLoop(ntasks)]
            /\ result_error' = IF o # "ok" /\ page_num[0] = 1 /\ main_comments = 0
                               THEN "initial_fetch" ELSE result_error
            /\ UNCHANGED <<attempt, page_num, main_comments, ntasks>>
       ELSE /\ AfterFailure(0, SleepsHoldingPermit(o), LeavePageLoop(ntasks))
            /\ result_error' = IF ~RetryLeft(attempt[0]) /\ page_num[0] = 1
                                  /\ main_comments = 0
                               THEN "initial_fetch" ELSE result_error
            /\ UNCHANGED <<attempt, page_num, main_comments, ntasks>>
    /\ UNCHANGED <<phase, fetched_count>>
    /\ root_pages_served' =
           IF o = "ok" /\ replies # <<>> THEN root_pages_served + 1
                                         ELSE root_pages_served
    /\ UNCHANGED root_pages_asked
    /\ UNCHANGED notCrawlVars

\* line 227-330: the answer to a reply page request of task t.
\* replies, is_end: the page and its cursor flag when the answer is "ok".
ReplyResponse(t, o, replies, is_end) ==
    /\ t \in ReplyTasks
    /\ tpc[t] = "inflight"
    /\ IF o = "ok" /\ replies # <<>>
       THEN LET remaining  == MaxRepliesPerComment - fetched_count[t]
                to_process == SubSeq(replies, 1, Min(remaining, Len(replies)))
                fetched    == fetched_count[t] + Count(to_process, "long")
                more       == /\ remaining > 0
                              /\ fetched < MaxRepliesPerComment
                              /\ ~is_end
                              /\ page_num[t] + 1 <=
                                     MaxPages(MaxRepliesPerComment, sub_comment_page_size)
            IN /\ LeaveAsyncWith(t)
               /\ fetched_count' = [fetched_count EXCEPT ![t] =
                                        IF remaining > 0 THEN fetched ELSE @]
               /\ page_num' = [page_num EXCEPT ![t] = IF more THEN @ + 1 ELSE @]
               /\ attempt' = [attempt EXCEPT ![t] = 0]
               /\ tpc' = [tpc EXCEPT ![t] = IF more THEN "acquire" ELSE "done"]
       ELSE IF o \in {"ok", "closed", "undecodable"}
       THEN /\ LeaveAsyncWith(t)
            /\ tpc' = [tpc EXCEPT ![t] = "done"]
            /\ UNCHANGED <<attempt, page_num, fetched_count>>
       ELSE /\ AfterFailure(t, SleepsHoldingPermit(o), "done")
            /\ UNCHANGED <<attempt, page_num, fetched_count>>
    /\ UNCHANGED <<phase, main_comments, ntasks, result_error>>
    /\ UNCHANGED <<root_pages_asked, root_pages_served>>
    /\ UNCHANGED notCrawlVars

\* line 413-452: every reply task has ended; gather returns and the result
\* is assembled
GatherDone ==
    /\ tpc[0] = "gather"
    /\ \A t \in 1..ntasks : tpc[t] = "done"
    /\ tpc' = [tpc EXCEPT ![0] = "done"]
    /\ UNCHANGED <<semaphore, holding, phase, attempt, page_num, main_comments,
                   ntasks, fetched_count, result_error>>
    /\ UNCHANGED <<root_pages_asked, root_pages_served>>
    /\ UNCHANGED notCrawlVars

\* what a finished get_comments call returned (the number of its comments)
\* and the permits that were free then
Returned ==
    [error |-> result_error, comments |-> main_comments, free |-> semaphore]

\* line 332-350: get_comments is called again on the same crawler after its
\* earlier call has returned.  result, main_comments_data,
\* tasks_for_sub_comments and the loop counters are new locals; the crawler
\* keeps its semaphore.
CallAgain(bvid) ==
    /\ tpc[0] = "done"
    /\ Len(earlier_results) < MaxCalls - 1
    /\ earlier_results' = Append(earlier_results, Returned)
    /\ result_error' = IF bvid THEN NONE ELSE "no_bvid"
    /\ tpc' = [t \in Tasks |-> IF t > 0 THEN "unstarted"
                               ELSE IF bvid THEN "acquire" ELSE "done"]
    /\ phase' = "resolve"
    /\ attempt' = [t \in Tasks |-> 0]
    /\ page_num' = [t \in Tasks |-> 1]
    /\ main_comments' = 0
    /\ ntasks' = 0
    /\ fetched_count' = [t \in Tasks |-> 0]
    /\ root_pages_asked' = <<>>
    /\ root_pages_served' = 0
    /\ UNCHANGED <<semaphore, holding, requests_sent, cancelled_holding>>
    /\ UNCHANGED <<runVars, harvestVars, requestVars>>

\* the awaits of a task: the semaphore, the random delay, the request, a
\* backoff sleep and, for get_comments, the gather of its reply tasks
Awaits == {"acquire", "jitter", "inflight", "backoff_held", "backoff_free",
           "gather"}

RECURSIVE ReleaseEach(_, _)
\* the free permits after n tasks have left their `async with` blocks
ReleaseEach(free, n) == IF n = 0 THEN free ELSE ReleaseEach(Release(free), n - 1)

RECURSIVE PermitsOf(_)
\* the permits the tasks of a set hold together
PermitsOf(T) ==
    IF T = {} THEN 0
    ELSE LET t == CHOOSE x \in T : TRUE IN holding[t] + PermitsOf(T \ {t})

\* the task that awaits get_comments is cancelled (in bilibili_tool.py the
\* gather of line 45 passes a cancellation of the job on to it): the
\* CancelledError is raised at the await get_comments is suspended at, which
\* no `except Exception` catches.  Raised inside `async with self.semaphore`
\* (line 77, 128) it gives the permit back; at line 413 gather cancels every
\* reply task that has not ended, each of which leaves its `async with`
\* (line 224) the same way.  Cancelled in the page loop, get_comments leaves
\* the reply tasks it has created running: they go on with the session of
\* line 349, which has been left, and whatever it answers them.
\* get_comments waits at `async with` (line 77, 128) also while a permit is
\* free: asyncio queues it behind a reply task that waits there, or that
\* has been handed a permit and has not resumed.  Cancelled in that wait it
\* holds nothing.
Cancel ==
    /\ tpc[0] \in Awaits
    /\ LET hit == {0} \cup (IF tpc[0] = "gather"
                            THEN {t \in 1..ntasks : tpc[t] # "done"}
                            ELSE {})
       IN /\ tpc' = [t \in Tasks |-> IF t \in hit THEN "cancelled" ELSE tpc[t]]
          /\ semaphore' = ReleaseEach(semaphore, PermitsOf(hit))
          /\ holding' = [t \in Tasks |-> IF t \in hit THEN 0 ELSE holding[t]]
          /\ cancelled_holding' = {t \in hit : holding[t] > 0}
    /\ UNCHANGED <<phase, attempt, page_num, main_comments, ntasks,
                   fetched_count, result_error, root_pages_asked,
                   root_pages_served>>
    /\ UNCHANGED <<runVars, harvestVars, requestVars, earlier_results,
                   requests_sent>>

CrawlNext ==
    \/ \E b, c \in BOOLEAN : GetComments(b, c)
    \/ \E t \in Tasks : Acquire(t)
    \/ \E t \in Tasks : JitterDone(t)
    \/ \E t \in Tasks : BackoffDone(t)
    \/ \E o \in Outcomes : ResolveResponse(o)
    \/ \E r \in RootPages : PageResponse("ok", r)
    \/ \E o \in Outcomes \ {"ok"} : PageResponse(o, <<>>)
    \/ \E t \in ReplyTasks, r \in ReplyPages, e \in BOOLEAN :
          ReplyResponse(t, "ok", r, e)
    \/ \E t \in ReplyTasks, o \in Outcomes \ {"ok"} :
          ReplyResponse(t, o, <<>>, FALSE)
    \/ GatherDone
    \/ Cancel

-----------------------------------------------------------------------------
(***************************************************************************)
(* get_comments and _fetch_sub_comments with the comments they collect.    *)
(* A step is the code between two page answers; an answer is what          *)
(* _fetch_comment_page returned, or what the retry loop of                 *)
(* _fetch_sub_comments ended with: "ok" (a page), "stopped" (ended without *)
(* a retry: code 12002 or -404, or an unexpected exception) or "failed"    *)
(* (every retry of the page failed).                                       *)
(***************************************************************************)

\* the root ids the upstream uses
Rpids == {"a", "b", "c"}

\* line 193: reply.get('rpid') of a comment that carries no rpid (None)
NoRpid == "None"

\* a root comment of a page, as far as get_comments reads it: its rpid,
\* rcount > 0 (threaded), len(message) >= BILIBILI_COMMENTS_LENGTH_MIN (long).
\* The upstream serves long threaded comments under the ids "a" and "b", "b"
\* also without replies, under "c" a threaded comment too short to pass
\* the filter, and a long threaded comment that carries no rpid.
Roots ==
    {r \in [rpid : Rpids \cup {NoRpid}, threaded : BOOLEAN, long : BOOLEAN] :
        \/ r.rpid \in {"a", "b"} /\ r.long /\ r.threaded
        \/ r.rpid = "b" /\ r.long /\ ~r.threaded
        \/ r.rpid = "c" /\ ~r.long /\ r.threaded
        \/ r.rpid = NoRpid /\ r.long /\ r.threaded}

\* the pages of root comments the upstream may serve
UpstreamRootPages == SeqsUpTo(Roots, PageSize)

\* the pages of replies the upstream serves to a harvest: none, or a page of
\* replies that pass the length filter
LongReplyPages == {<<>>, [i \in 1..MaxReplyPageLen |-> "long"]}

\* the values of BILIBILI_COMMENTS_MAX_REPLIES_PER_COMMENT looked at: a cap
\* below a reply page, the configured one, one above sub_comment_page_size
ReplyCaps == {1, MaxRepliesPerComment, sub_comment_page_size + 1}

PageAnswers == {"ok", "stopped", "failed"}

SubTasks == 1..MaxNum

\* a changed line 190: the length filter is forgotten
ProcessMainRepliesAll(replies_data) == replies_data

\* _process_main_replies on root records
ProcessMainReplies(replies_data) == SelectSeq(replies_data, LAMBDA c : c.long)

\* a changed line 393: the slice is forgotten
RepliesToAddAll(processed, remaining_capacity) == processed

\* line 393: processed_main_replies[:int(remaining_capacity)]
RepliesToAdd(processed, remaining_capacity) ==
    SubSeq(processed, 1, Min(remaining_capacity, Len(processed)))

\* line 398: if reply_data['rcount'] > 0 and reply_data['rpid'] is not None
HasReplyTask(reply_data) == reply_data.threaded /\ reply_data.rpid # NoRpid

\* a changed line 398: rcount is not looked at
NewTaskRpidsAll(replies_to_add) ==
    LET with_id == SelectSeq(replies_to_add, LAMBDA c : c.rpid # NoRpid)
    IN [i \in 1..Len(with_id) |-> with_id[i].rpid]

\* line 398-401: the root ids a task is created for, in order
NewTaskRpids(replies_to_add) ==
    LET with_task == SelectSeq(replies_to_add, HasReplyTask)
    IN [i \in 1..Len(with_task) |-> with_task[i].rpid]

\* line 402: rpid_to_main_comment_index[rpid] = current_index, for each new
\* task in turn: a key that is in the dict keeps its place
RECURSIVE DictKeys(_, _)
DictKeys(keys, rpids) ==
    IF rpids = <<>> THEN keys
    ELSE DictKeys(IF Head(rpids) \in Range(keys) THEN keys
                                                ELSE Append(keys, Head(rpids)),
                  Tail(rpids))

\* line 411-412: zip(rpid_to_main_comment_index.keys(), tasks_for_sub_comments):
\* the i-th task is paired with the i-th key, as far as the keys go
task_to_rpid(keys, tasks) == [i \in 1..Min(Len(keys), Len(tasks)) |-> keys[i]]

\* line 415-428: the gathered result of each task that has an rpid, under it
sub_comments_results(keys, tasks, results) ==
    LET t2r == task_to_rpid(keys, tasks)
    IN [r \in Range(t2r) |-> results[CHOOSE i \in DOMAIN t2r : t2r[i] = r]]

\* line 432-446: one flattened comment per root comment, in their order
FlattenedComments(main, keys, tasks, results) ==
    LET scr  == sub_comments_results(keys, tasks, results)
        kept == SelectSeq(main, LAMBDA c : c.long)
    IN [i \in 1..Len(kept) |->
           [root    |-> kept[i],
            replies |-> IF kept[i].rpid \in DOMAIN scr THEN scr[kept[i].rpid]
                                                       ELSE <<>>]]

\* a changed line 259: the slice is forgotten
RepliesToProcessAll(page_replies, remaining_capacity) == page_replies

\* line 259: page_replies[:int(remaining_capacity)]
RepliesToProcess(page_replies, remaining_capacity) ==
    SubSeq(page_replies, 1, Min(remaining_capacity, Len(page_replies)))

\* a changed line 266: the length filter is forgotten
KeptRepliesAll(root_rpid, page, replies_to_process) ==
    [i \in 1..Len(replies_to_process) |->
        [root |-> root_rpid, page |-> page, pos |-> i]]

\* line 262-268: the replies of the slice that pass the length filter, in
\* their order; a reply is named by the thread it was fetched for, its page
\* and its place on the page
KeptReplies(root_rpid, page, replies_to_process) ==
    LET all == [i \in 1..Len(replies_to_process) |->
                   [root |-> root_rpid, page |-> page, pos |-> i]]
    IN SelectSeq(all, LAMBDA x : replies_to_process[x.pos] = "long")

\* a changed line 267: the replies of a page are put before the earlier ones
CollectPrepend(collected, kept) == kept \o collected

\* line 267: sub_comments.append(message), for each kept reply
Collect_sub_comments(collected, kept) == collected \o kept

\* a changed line 213: one page more is allowed
BeyondMaxPagesLate(page, cap, size) == page > MaxPages(cap, size) + 1

\* line 213 and line 367: if page_num > max_pages
BeyondMaxPages(page, cap, size) == page > MaxPages(cap, size)

\* what the properties keep of the root comments served so far: the first
\* MaxNum that pass the length filter, in the order of their pages and places
Passing(replies) == SelectSeq(replies, LAMBDA c : c.long)

FirstReceived(roots) == SubSeq(roots, 1, Min(MaxNum, Len(roots)))

\* a changed line 373: the page number is not looked at
InitialFetchFailedAnyPage(page, main) == main = <<>>

\* line 373: if page_num == 1 and not main_comments_data
InitialFetchFailed(page, main) == page = 1 /\ main = <<>>

HarvestInit ==
    /\ hpc = "idle"
    /\ max_replies \in ReplyCaps
    /\ root_page_num = 1
    /\ main_comments_data = <<>>
    /\ tasks_for_sub_comments = <<>>
    /\ rpid_to_main_comment_index = <<>>
    /\ sub_pc = [t \in SubTasks |-> "unstarted"]
    /\ sub_page_num = [t \in SubTasks |-> 1]
    /\ sub_comments = [t \in SubTasks |-> <<>>]
    /\ final_comment_list = <<>>
    /\ comments_error = NONE
    /\ received = <<>>
    /\ root_end = NONE
    /\ upstream_more = FALSE
    /\ served = <<>>
    /\ all_ok = TRUE

\* line 345-364: _get_aid_from_bvid has returned an aid; the page loop starts
BeginPaging ==
    /\ hpc = "idle"
    /\ hpc' = "paging"
    /\ UNCHANGED <<max_replies, root_page_num, main_comments_data,
                   tasks_for_sub_comments, rpid_to_main_comment_index, sub_pc,
                   sub_page_num, sub_comments, final_comment_list,
                   comments_error, received, root_end, upstream_more, served,
                   all_ok>>
    /\ UNCHANGED notHarvestVars

\* the page loop is left (why): with tasks, gather is awaited (line 413);
\* without, the result is assembled at once (line 429-452).  When the loop
\* stops at the page limit below the cap, the listing may hold a passing
\* comment on a page never asked for.
LeaveRootLoop(why, main, tasks, keys) ==
    /\ root_end' = why
    /\ upstream_more' \in (IF why = "max_pages" /\ Len(main) < MaxNum
                           THEN BOOLEAN ELSE {FALSE})
    /\ IF tasks # <<>>
       THEN /\ hpc' = "gather"
            /\ UNCHANGED final_comment_list
       ELSE /\ hpc' = "done"
            /\ final_comment_list' = FlattenedComments(main, keys, tasks, sub_comments)

\* line 366-406: _fetch_comment_page has returned for page root_page_num
RootPageResponse(o, replies) ==
    /\ hpc = "paging"
    /\ LET processed == ProcessMainReplies(replies)
           remaining == MaxNum - Len(main_comments_data)
           to_add    == RepliesToAdd(processed, remaining)
           rpids     == NewTaskRpids(to_add)
           main      == main_comments_data \o to_add
           tasks     == tasks_for_sub_comments \o rpids
           keys      == DictKeys(rpid_to_main_comment_index, rpids)
       IN IF o # "ok"
          THEN \* line 372-378: page_data is None
               /\ comments_error' =
                      IF InitialFetchFailed(root_page_num, main_comments_data)
                      THEN "initial_fetch" ELSE comments_error
               /\ LeaveRootLoop(o, main_comments_data, tasks_for_sub_comments,
                                rpid_to_main_comment_index)
               /\ UNCHANGED <<root_page_num, main_comments_data,
                              tasks_for_sub_comments,
                              rpid_to_main_comment_index, sub_pc, received>>
          ELSE IF replies = <<>> \/ remaining <= 0
          THEN \* line 381-383, line 390-392
               /\ LeaveRootLoop(IF replies = <<>> THEN "empty" ELSE "cap",
                                main_comments_data, tasks_for_sub_comments,
                                rpid_to_main_comment_index)
               /\ received' = FirstReceived(received \o Passing(replies))
               /\ UNCHANGED <<root_page_num, main_comments_data,
                              tasks_for_sub_comments,
                              rpid_to_main_comment_index, sub_pc,
                              comments_error>>
          ELSE \* line 385-406, and line 367 for the next page
               /\ received' = FirstReceived(received \o Passing(replies))
               /\ main_comments_data' = main
               /\ tasks_for_sub_comments' = tasks
               /\ rpid_to_main_comment_index' = keys
               /\ sub_pc' = [t \in SubTasks |->
                                IF t > Len(tasks_for_sub_comments) /\ t <= Len(tasks)
                                THEN "fetching" ELSE sub_pc[t]]
               /\ root_page_num' = root_page_num + 1
               /\ IF BeyondMaxPages(root_page_num + 1, MaxNum, PageSize)
                  THEN LeaveRootLoop("max_pages", main, tasks, keys)
                  ELSE UNCHANGED <<hpc, root_end, final_comment_list,
                                   upstream_more>>
               /\ UNCHANGED comments_error
    /\ UNCHANGED <<max_replies, sub_page_num, sub_comments, served, all_ok>>
    /\ UNCHANGED notHarvestVars

\* line 212-330: the retry loop of page sub_page_num[t] of task t has ended
SubPageStep(t, o, replies, is_end) ==
    /\ sub_pc[t] = "fetching"
    /\ LET remaining  == max_replies - Len(sub_comments[t])
           to_process == RepliesToProcess(replies, remaining)
           kept       == KeptReplies(tasks_for_sub_comments[t], sub_page_num[t],
                                     to_process)
           collected  == Collect_sub_comments(sub_comments[t], kept)
       IN IF o = "ok" /\ replies # <<>> /\ remaining > 0
          THEN /\ sub_comments' = [sub_comments EXCEPT ![t] = collected]
               /\ IF Len(collected) >= max_replies \/ is_end
                  THEN \* line 274-281
                       /\ sub_pc' = [sub_pc EXCEPT ![t] = "returned"]
                       /\ UNCHANGED sub_page_num
                  ELSE \* line 283-284, 329, 213-215
                       /\ sub_page_num' = [sub_page_num EXCEPT ![t] = @ + 1]
                       /\ sub_pc' = [sub_pc EXCEPT ![t] =
                              IF BeyondMaxPages(sub_page_num[t] + 1, max_replies,
                                                sub_comment_page_size)
                              THEN "returned" ELSE "fetching"]
          ELSE \* line 248-250, 256-258, 286-289, 304-307, 317-328
               /\ sub_pc' = [sub_pc EXCEPT ![t] =
                                IF o = "failed" THEN "failed" ELSE "returned"]
               /\ UNCHANGED <<sub_comments, sub_page_num>>

\* a reply task of get_comments gets the answer to its page
SubPageResponse(t, o, replies, is_end) ==
    /\ hpc \in {"paging", "gather"}
    /\ t <= Len(tasks_for_sub_comments)
    /\ SubPageStep(t, o, replies, is_end)
    /\ UNCHANGED <<hpc, max_replies, root_page_num, main_comments_data,
                   tasks_for_sub_comments, rpid_to_main_comment_index,
                   final_comment_list, comments_error, received, root_end,
                   upstream_more, served, all_ok>>
    /\ UNCHANGED notHarvestVars

\* _fetch_sub_comments leaves with an exception its handlers do not catch
\* (they catch Exception inside the retry loop only): the task of get_comments
\* ends with it, and the locals of the call (page_num, sub_comments) are gone
SubTaskRaise(t) ==
    /\ hpc \in {"paging", "gather"}
    /\ t <= Len(tasks_for_sub_comments)
    /\ sub_pc[t] = "fetching"
    /\ sub_pc' = [sub_pc EXCEPT ![t] = "raised"]
    /\ sub_page_num' = [sub_page_num EXCEPT ![t] = 1]
    /\ sub_comments' = [sub_comments EXCEPT ![t] = <<>>]
    /\ UNCHANGED <<hpc, max_replies, root_page_num, main_comments_data,
                   tasks_for_sub_comments, rpid_to_main_comment_index,
                   final_comment_list, comments_error, received, root_end,
                   upstream_more, served, all_ok>>
    /\ UNCHANGED notHarvestVars

\* line 413-428: what is stored for a task of gather(return_exceptions=True):
\* the list it returned, or [] for an exception
ResultOfTask(task_pc, collected) ==
    IF task_pc = "raised" THEN <<>> ELSE collected

gathered_results ==
    [t \in SubTasks |-> ResultOfTask(sub_pc[t], sub_comments[t])]

\* line 413-452: every reply task has ended; gather returns their results in
\* the order of tasks_for_sub_comments and the comments are flattened
GatherReturn ==
    /\ hpc = "gather"
    /\ \A t \in 1..Len(tasks_for_sub_comments) :
          sub_pc[t] \in {"returned", "failed", "raised"}
    /\ hpc' = "done"
    /\ final_comment_list' =
           FlattenedComments(main_comments_data, rpid_to_main_comment_index,
                             tasks_for_sub_comments, gathered_results)
    /\ UNCHANGED <<max_replies, root_page_num, main_comments_data,
                   tasks_for_sub_comments, rpid_to_main_comment_index, sub_pc,
                   sub_page_num, sub_comments, comments_error, received,
                   root_end, upstream_more, served, all_ok>>
    /\ UNCHANGED notHarvestVars

HarvestNext ==
    \/ BeginPaging
    \/ \E r \in UpstreamRootPages : RootPageResponse("ok", r)
    \/ \E o \in PageAnswers \ {"ok"} : RootPageResponse(o, <<>>)
    \/ \E t \in SubTasks, r \in LongReplyPages, e \in BOOLEAN :
          SubPageResponse(t, "ok", r, e)
    \/ \E t \in SubTasks, o \in PageAnswers \ {"ok"} :
          SubPageResponse(t, o, <<>>, FALSE)
    \/ \E t \in SubTasks : SubTaskRaise(t)
    \/ GatherReturn

\* line 198-211: _fetch_sub_comments(session, aid, root_rpid) is called by itself
DirectCall(root_rpid) ==
    /\ hpc = "idle"
    /\ hpc' = "direct"
    /\ tasks_for_sub_comments' = <<root_rpid>>
    /\ sub_pc' = [sub_pc EXCEPT ![1] = "fetching"]
    /\ UNCHANGED <<max_replies, root_page_num, main_comments_data,
                   rpid_to_main_comment_index, sub_page_num, sub_comments,
                   final_comment_list, comments_error, received, root_end,
                   upstream_more, served, all_ok>>
    /\ UNCHANGED notHarvestVars

\* the call gets the answer to its page: any page of replies, short or long
DirectPageResponse(o, replies, is_end) ==
    /\ hpc = "direct"
    /\ SubPageStep(1, o, replies, is_end)
    /\ served' = served \o replies
    /\ all_ok' = (all_ok /\ o = "ok")
    /\ UNCHANGED <<hpc, max_replies, root_page_num, main_comments_data,
                   tasks_for_sub_comments, rpid_to_main_comment_index,
                   final_comment_list, comments_error, received, root_end,
                   upstream_more>>
    /\ UNCHANGED notHarvestVars

ThreadNext ==
    \/ \E r \in Rpids : DirectCall(r)
    \/ \E r \in ReplyPages, e \in BOOLEAN : DirectPageResponse("ok", r, e)
    \/ \E o \in PageAnswers \ {"ok"} : DirectPageResponse(o, <<>>, FALSE)

-----------------------------------------------------------------------------
(***************************************************************************)
(* One request and its retry loop: _get_aid_from_bvid ("aid"),             *)
(* _fetch_comment_page ("main") and the for loop of _fetch_sub_comments    *)
(* ("sub"), with the delays it sleeps between its attempts.                *)
(***************************************************************************)

RequestKinds == {"aid", "main", "sub"}

\* the values of BILIBILI_COMMENTS_MAX_RETRIES looked at
RetryCounts == 1..(MaxRetries + 1)

\* a changed line 98, 150, 286: the 'not found' code is one more API error
ReturnsNoneNever(kind, o) == o = "undecodable"

\* the answers that end the loop with None and without a retry:
\* code -404 of the view API (line 98-100), code 12002 or -404 of a page
\* (line 150-152, 286-289), and a body that is no JSON: logging it raises
\* TypeError (line 85, 137, 233), which `except Exception` takes for an
\* unexpected error (line 116-119, 175-178, 321-325)
ReturnsNone(kind, o) == o \in {"closed", "undecodable"}

\* line 101, 110, 161, 173, 300, 315: attempt < BILIBILI_COMMENTS_MAX_RETRIES - 1
retry_left(attempt_, retries) == attempt_ < retries - 1

\* a changed line 102, 111: the delay does not grow
BackoffDelayConstant(kind, o, attempt_) == 1

\* the sleep before the next attempt, in units of
\* BILIBILI_COMMENTS_RETRY_DELAY_SECONDS: line 102, 111 (aid), line 162-163,
\* 174 (main), line 301-302, 316 (sub)
BackoffDelay(kind, o, attempt_) ==
    IF kind = "aid" \/ o \in {"s412", "neterror"} THEN attempt_ + 1 ELSE 1

RequestInit ==
    /\ rq_kind = NONE
    /\ max_retries \in RetryCounts
    /\ rq_pc = "idle"
    /\ rq_attempt = 0
    /\ rq_delays = <<>>
    /\ rq_outcomes = <<>>
    /\ rq_result = "pending"
    /\ rq_caller = "waiting"
    /\ rq_permit = FALSE

\* no request loop is looked at
RequestIdle == RequestInit /\ max_retries = MaxRetries

\* line 75, 126, 221: the loop starts and sends its first attempt
CallRequest(kind) ==
    /\ rq_pc = "idle"
    /\ rq_kind' = kind
    /\ rq_pc' = "inflight"
    /\ rq_permit' = TRUE
    /\ UNCHANGED <<max_retries, rq_attempt, rq_delays, rq_outcomes, rq_result,
                   rq_caller>>
    /\ UNCHANGED notRequestVars

\* what follows the end of the loop.  get_comments, line 350-354: without an
\* aid it returns its result with error set and no comments, before any page
\* is asked for; with one it goes on to the page loop.  Line 371-378: without
\* page data it leaves the page loop with main_comments_data as it is.
\* _fetch_sub_comments, line 289, 307, 320, 325: it returns sub_comments as
\* collected so far.
CallerAfter(kind, value) ==
    IF value # "None" THEN (IF kind = "aid" THEN "paginating" ELSE "page_looked_at")
    ELSE IF kind = "aid" THEN "error_result"
    ELSE IF kind = "main" THEN "page_loop_left"
    ELSE "collected_returned"

\* the loop ends and the function returns value, leaving `async with`
ReturnRequest(value) ==
    /\ rq_pc' = "ended"
    /\ rq_permit' = FALSE
    /\ rq_result' = value
    /\ rq_caller' = CallerAfter(rq_kind, value)

\* line 79-119, 131-178, 227-325: the answer to the attempt
RequestResponse(o) ==
    /\ rq_pc = "inflight"
    /\ rq_outcomes' = Append(rq_outcomes, o)
    /\ IF o = "ok"
       THEN /\ ReturnRequest("data")
            /\ UNCHANGED rq_delays
       ELSE IF ReturnsNone(rq_kind, o)
       THEN /\ ReturnRequest("None")
            /\ UNCHANGED rq_delays
       ELSE IF retry_left(rq_attempt, max_retries)
       THEN /\ rq_pc' = "backoff"
            /\ rq_permit' = SleepsHoldingPermit(o)
            /\ rq_delays' = Append(rq_delays, BackoffDelay(rq_kind, o, rq_attempt))
            /\ UNCHANGED <<rq_result, rq_caller>>
       ELSE /\ ReturnRequest("None")
            /\ UNCHANGED rq_delays
    /\ UNCHANGED <<rq_kind, max_retries, rq_attempt>>
    /\ UNCHANGED notRequestVars

\* the sleep is over: the next attempt is sent
RequestBackoffDone ==
    /\ rq_pc = "backoff"
    /\ rq_pc' = "inflight"
    /\ rq_permit' = TRUE
    /\ rq_attempt' = rq_attempt + 1
    /\ UNCHANGED <<rq_kind, max_retries, rq_delays, rq_outcomes, rq_result,
                   rq_caller>>
    /\ UNCHANGED notRequestVars

RequestNext ==
    \/ \E k \in RequestKinds : CallRequest(k)
    \/ \E o \in Outcomes : RequestResponse(o)
    \/ RequestBackoffDone

-----------------------------------------------------------------------------
(***************************************************************************)
(* The specifications: a run of _arun with its jobs' crawlers taken as     *)
(* whole steps (SpecRun), and one crawler's get_comments call (SpecCrawl). *)
(***************************************************************************)

\* the harvest at rest, under the configured reply cap
HarvestIdle == HarvestInit /\ max_replies = MaxRepliesPerComment

\* a run starts with a crawler that has not been called
InitRun == RunInit /\ CrawlInit /\ HarvestIdle /\ RequestIdle

SpecRun == InitRun /\ [][RunNext]_vars

\* a crawler is called while no run is under way
InitCrawl == CrawlInit /\ RunInit /\ llm = TRUE /\ HarvestIdle /\ RequestIdle

SpecCrawl == InitCrawl /\ [][CrawlNext]_vars

\* get_comments collects a video's comments, for each reply cap
InitHarvest == HarvestInit /\ RunInit /\ llm = TRUE /\ CrawlInit /\ RequestIdle

SpecHarvest == InitHarvest /\ [][HarvestNext]_vars

\* _fetch_sub_comments fetches one thread, for each reply cap
InitThread == HarvestInit /\ RunInit /\ llm = TRUE /\ CrawlInit /\ RequestIdle

SpecThread == InitThread /\ [][ThreadNext]_vars

\* one request loop, for each retry count
InitRequest == RequestInit /\ RunInit /\ llm = TRUE /\ CrawlInit /\ HarvestIdle

SpecRequest == InitRequest /\ [][RequestNext]_vars

\* one crawler is called again and again, for a url without a BV id or for
\* a video the upstream does not know: its resolve request is answered 'not
\* found', at once or after failures that leave a retry
ReharvestNext ==
    \/ GetComments(TRUE, TRUE)
    \/ Acquire(0)
    \/ BackoffDone(0)
    \/ ResolveResponse("closed")
    \/ \E o \in {"s412", "error", "neterror"} :
          RetryLeft(attempt[0]) /\ ResolveResponse(o)
    \/ \E b \in BOOLEAN : CallAgain(b)

SpecReharvest == InitCrawl /\ [][ReharvestNext]_vars

\* line 79, 131, 227: session.get is called: one more request
SendsRequest(t, before, after) ==
    IF before[t] # "inflight" /\ after[t] = "inflight" THEN 1 ELSE 0

\* the steps that send a request, with the requests counted
Counted(t) ==
    /\ AcquireStep(t) \/ JitterDoneStep(t)
    /\ requests_sent' = requests_sent + SendsRequest(t, tpc, tpc')
    /\ UNCHANGED <<runVars, harvestVars, requestVars, earlier_results,
                   cancelled_holding>>

\* one get_comments call with its requests counted; every request is
\* answered, every sleep ends and a free permit is handed to a task that
\* waits for it
CountedNext ==
    \/ \E b, c \in BOOLEAN : GetComments(b, c)
    \/ \E t \in Tasks : Counted(t)
    \/ \E t \in Tasks : BackoffDone(t)
    \/ \E o \in Outcomes : ResolveResponse(o)
    \/ \E r \in RootPages : PageResponse("ok", r)
    \/ \E o \in Outcomes \ {"ok"} : PageResponse(o, <<>>)
    \/ \E t \in ReplyTasks, r \in ReplyPages, e \in BOOLEAN :
          ReplyResponse(t, "ok", r, e)
    \/ \E t \in ReplyTasks, o \in Outcomes \ {"ok"} :
          ReplyResponse(t, o, <<>>, FALSE)
    \/ GatherDone

SpecCounted == InitCrawl /\ [][CountedNext]_vars /\ WF_vars(CountedNext)

-----------------------------------------------------------------------------
(***************************************************************************)
(* Properties of BilibiliTool._arun, checked under SpecRun.                *)
(***************************************************************************)

Finished(v) == job[v] \in {"ok", "failed"}

Running(v) == job[v] = "running" \/ ext[v] = "running" \/ har[v] = "running"

Completed == {v \in Jobs : job[v] = "ok"}

\* the timer fired while a started job had not finished
DeadlineCutJobs == timedOut /\ atDeadline.running # {}

\* every job of the run finished, and none was running when (if) the timer fired
FinishedBeforeDeadline ==
    /\ Jobs # {}
    /\ \A v \in Jobs : Finished(v)
    /\ timedOut => atDeadline.running = {}

\* C2 (the claim as stated): when the deadline expires while a started job
\* has not finished, the returned artifact is the timeout-marked (truncated)
\* one and is assembled from the accumulator as it is at that moment.
C2_TimeoutIsTruncated ==
    (pc = "returned" /\ DeadlineCutJobs)
        => (Truncated(artifact) /\ VideosOf(artifact) = AccVideos)

\* C3 (the claim as stated): if every job finishes before the deadline, the
\* returned artifact is not flagged truncated and is assembled from the full
\* accumulator, that is from every job that completed.
C3_AllFinishedNotTruncated ==
    (pc = "returned" /\ FinishedBeforeDeadline)
        => /\ ~Truncated(artifact)
           /\ VideosOf(artifact) = AccVideos
           /\ Range(AccVideos) = Completed

\* C4 (the claim as stated): in a run cut by the deadline (a started job
\* still running when it fires), the accumulator the returned artifact is
\* made from holds exactly the jobs that completed before the deadline: each
\* of those, and none of the jobs that were running then.
C4_AccumulatorIsCompletedBeforeDeadline ==
    (pc = "returned" /\ DeadlineCutJobs)
        => /\ Range(AccVideos) = atDeadline.completed
           /\ Range(AccVideos) \cap atDeadline.running = {}
           /\ VideosOf(artifact) = AccVideos

\* C5 (the claim as stated): when the deadline fires, every unfinished job
\* and its child tasks are cancelled: once _arun has returned, no task of the
\* run is still running.
C5_NothingRunsAfterReturn ==
    (pc = "returned" /\ timedOut) => \A v \in Jobs : ~Running(v)

\* C6: the accumulator only grows (each step keeps its content as a prefix),
\* and whatever was appended is in the artifact that is assembled, whether
\* siblings fail or the deadline fires.
C6_AccumulatorOnlyGrows ==
    /\ [][IsPrefix(partial_results_list, partial_results_list')]_vars
    /\ [](pc = "returned" => VideosOf(artifact) = AccVideos)

\* an entry is in the accumulator, a sibling was still running when the
\* deadline fired, and the run has returned
C6_Witness ==
    /\ pc = "returned"
    /\ DeadlineCutJobs
    /\ Len(partial_results_list) >= 1
    /\ VideosOf(artifact) = AccVideos

\* C7 (the claim as stated): once the deadline has fired with jobs
\* unfinished, no call of the summarizer's LLM (_llm_summary, line 91) is
\* started and the artifact is produced without summarisation.
C7_NoSummaryAfterDeadline ==
    DeadlineCutJobs
        => /\ ~summaryAfterDeadline
           /\ pc # "summarizing"
           /\ pc = "returned" => artifact.kind # "Summary"

\* the timer fired while the loop was collecting
LoopCut == timedOut /\ atDeadline.at = "collecting"

\* C8: an exception of one job skips that video only: the loop goes on to
\* every sibling, whose output is appended when it completes, and the run is
\* not reported as a timeout or an error because of the exception.
C8_JobExceptionIsIsolated ==
    /\ (pc \in {"summarizing", "returned"} /\ Jobs # {} /\ ~LoopCut)
           => /\ yielded = Len(search_results_urls)
              /\ Range(AccVideos) = Completed
    /\ (pc = "returned" /\ Jobs # {} /\ ~timedOut)
           => artifact.kind \in {"Summary", "NothingProcessed"}

\* one job raised, a sibling completed after it and is in the accumulator
C8_Witness ==
    /\ pc = "returned"
    /\ ~timedOut
    /\ \E v \in Jobs : job[v] = "failed"
    /\ \E v \in Jobs : job[v] = "ok" /\ v \in Range(AccVideos)
    /\ artifact.kind = "Summary"

\* C9: when discovery returns an empty list the run returns the 'no results'
\* artifact at once: no job is started, no error and no timeout is reported.
C9_EmptySearchIsNoResults ==
    (searchOutcome = "returned" /\ search_results_urls = <<>>)
        => /\ pc = "returned"
           /\ artifact.kind = "NoResults"
           /\ ~timedOut
           /\ \A v \in Videos : job[v] = "unstarted" /\ ext[v] = "unstarted"
                                /\ har[v] = "unstarted"

C9_Witness ==
    /\ searchOutcome = "returned"
    /\ search_results_urls = <<>>
    /\ pc = "returned"

\* C10: when videos were discovered and the accumulator is empty when the run
\* assembles its result, the 'nothing processed' artifact is returned, and it
\* is not the 'no results' artifact.
C10_EmptyAccumulatorIsNothingProcessed ==
    (pc = "returned" /\ search_results_urls # <<>> /\ partial_results_list = <<>>)
        => /\ artifact.kind = "NothingProcessed"
           /\ artifact # [kind |-> "NoResults", items |-> <<>>]

\* every job failed, nothing was accumulated
C10_Witness ==
    /\ pc = "returned"
    /\ search_results_urls # <<>>
    /\ partial_results_list = <<>>
    /\ \A v \in Jobs : job[v] = "failed"
    /\ ~timedOut

-----------------------------------------------------------------------------
(***************************************************************************)
(* Properties of get_comments and _fetch_sub_comments, checked under       *)
(* SpecHarvest and SpecThread.                                             *)
(***************************************************************************)

RootsOf(list) == [i \in 1..Len(list) |-> list[i].root]

\* replies in the order of their pages, and of their places on a page
InPageOrder(replies) ==
    \A j, k \in 1..Len(replies) :
        j < k => \/ replies[j].page < replies[k].page
                 \/ /\ replies[j].page = replies[k].page
                    /\ replies[j].pos < replies[k].pos

\* the reply tasks get_comments has created
Created == 1..Len(tasks_for_sub_comments)

\* the task created for the i-th accepted root comment (one that got a
\* task): as many such comments were accepted up to it
TaskOf(i) ==
    Cardinality({j \in 1..i : HasReplyTask(main_comments_data[j])})

\* every root page request of the harvest succeeded
RootRequestsOk == root_end \in {"empty", "cap", "max_pages"}

\* C11: get_comments emits the accepted root comments in the order they were
\* received across the root pages, and the replies inside each flattened
\* comment are the replies one reply task collected, in the order of the
\* reply pages and of the places on them, in whatever order the reply tasks
\* finish.
C11_OrderAsReceived ==
    hpc = "done"
        => /\ RootsOf(final_comment_list) = received
           /\ \A i \in 1..Len(final_comment_list) :
                 /\ InPageOrder(final_comment_list[i].replies)
                 /\ \/ final_comment_list[i].replies = <<>>
                    \/ \E t \in Created :
                          final_comment_list[i].replies = sub_comments[t]

\* three comments are emitted, two of them with replies of two reply pages
C11_Witness ==
    /\ hpc = "done"
    /\ Len(final_comment_list) = MaxNum
    /\ \E i, k \in 1..Len(final_comment_list) :
          /\ i < k
          /\ final_comment_list[i].root # final_comment_list[k].root
          /\ \A c \in {i, k} :
                \E j \in 1..Len(final_comment_list[c].replies) :
                   final_comment_list[c].replies[j].page = 2

\* C12 (the claim as stated): every reply placed in a flattened comment was
\* fetched for that comment's own root id, also when the root pages repeat a
\* root id.
C12_RepliesBelongToTheirRoot ==
    hpc = "done"
        => \A i \in 1..Len(final_comment_list) :
              \A j \in 1..Len(final_comment_list[i].replies) :
                 final_comment_list[i].replies[j].root
                     = final_comment_list[i].root.rpid

\* C13: at every point of a harvest the accepted root comments are at most
\* BILIBILI_COMMENTS_MAX_NUM and the replies collected for a thread are at
\* most the reply cap, in the collections and in the emitted list.
C13_CapsNeverExceeded ==
    /\ Len(main_comments_data) <= MaxNum
    /\ Len(final_comment_list) <= MaxNum
    /\ \A t \in SubTasks : Len(sub_comments[t]) <= max_replies
    /\ \A i \in 1..Len(final_comment_list) :
          Len(final_comment_list[i].replies) <= max_replies

\* both caps are met: the root cap, and the reply cap by a thread whose page
\* holds more replies than the cap
C13_Witness ==
    /\ Len(main_comments_data) = MaxNum
    /\ max_replies < MaxReplyPageLen
    /\ \E t \in Created : Len(sub_comments[t]) = max_replies

\* C14 (the claim as stated): with every request succeeding, get_comments
\* returns exactly min(available, MaxNum) root comments, available being the
\* number of upstream root comments that pass the length filter (those
\* served, and the one the listing may hold on a page never asked for).
C14_ReturnsMinOfAvailable ==
    (hpc = "done" /\ RootRequestsOk)
        => Len(final_comment_list) =
               Min(Len(received) + (IF upstream_more THEN 1 ELSE 0), MaxNum)

\* C14 (amended): with every request succeeding, get_comments returns exactly
\* min(available, MaxNum) root comments, available being the number of root
\* comments that pass the length filter on the pages it asks for: the pages
\* up to the first empty one, at most ceil(MaxNum / PageSize) of them.
C14_ReturnsMinOfAvailableOnPagesAsked ==
    (hpc = "done" /\ RootRequestsOk)
        => /\ Len(final_comment_list) = Min(Len(received), MaxNum)
           /\ RootsOf(final_comment_list) = received
           /\ root_page_num - 1 <= MaxPages(MaxNum, PageSize)

\* the page limit ends the harvest below the cap while the listing holds more
C14_Witness ==
    /\ hpc = "done"
    /\ root_end = "max_pages"
    /\ upstream_more
    /\ Len(final_comment_list) > 0
    /\ Len(final_comment_list) < MaxNum

\* the thread fetched by itself has returned
ThreadReturned == hpc = "direct" /\ sub_pc[1] \in {"returned", "failed"}

\* C15 (the claim as stated): for a thread with R available replies (those
\* its pages serve) and reply cap C, with every request succeeding,
\* _fetch_sub_comments returns exactly min(R, C) replies.
C15_ReturnsMinOfReplies ==
    (ThreadReturned /\ all_ok)
        => Len(sub_comments[1]) = Min(Len(served), max_replies)

\* C15 (amended): with every request succeeding, _fetch_sub_comments returns
\* exactly min(R, C) replies, R being the replies on the pages it asks for (at
\* most ceil(C / sub_comment_page_size), up to the end of the thread),
\* provided none of them is shorter than the minimum length; a shorter reply
\* is dropped after the cap was applied to its page, so in general at most
\* min(R, C) replies are returned, R counting the replies that pass the filter.
C15_ReturnsMinOfRepliesOnPagesAsked ==
    (ThreadReturned /\ all_ok)
        => /\ Len(sub_comments[1]) <= Min(Count(served, "long"), max_replies)
           /\ Count(served, "short") = 0
                 => Len(sub_comments[1]) = Min(Len(served), max_replies)
           /\ sub_page_num[1] - 1 <= MaxPages(max_replies, sub_comment_page_size)

\* the pages served more replies than the cap, all of them long
C15_Witness ==
    /\ ThreadReturned
    /\ all_ok
    /\ Count(served, "short") = 0
    /\ Len(served) > max_replies
    /\ Len(sub_comments[1]) = max_replies

\* C27 (the claim as stated): reply text is accepted regardless of its
\* length: while the cap is not met, every reply the pages served is
\* collected.
C27_RepliesAcceptedRegardlessOfLength ==
    (hpc = "direct" /\ Len(sub_comments[1]) < max_replies)
        => Len(sub_comments[1]) = Len(served)

\* C27 (amended): replies pass the same length filter as root comments: of a
\* reply page the first (cap - collected) replies are looked at, those of at
\* least the minimum length are collected and count toward the cap, the
\* shorter ones are dropped and do not count.
C27_RepliesAreFilteredByLength ==
    [][(hpc = "direct" /\ served' # served)
          => LET page      == SubSeq(served', Len(served) + 1, Len(served'))
                 remaining == max_replies - Len(sub_comments[1])
                 looked_at == SubSeq(page, 1, Min(remaining, Len(page)))
             IN /\ Len(sub_comments'[1])
                       = Len(sub_comments[1]) + Count(looked_at, "long")
                /\ Len(sub_comments'[1]) <= max_replies]_vars

\* a short reply was served and dropped, a long one collected
C27_Witness ==
    /\ hpc = "direct"
    /\ Count(served, "short") > 0
    /\ Len(sub_comments[1]) = Count(served, "long")
    /\ Len(sub_comments[1]) > 0
    /\ Len(sub_comments[1]) < max_replies

\* C16: a harvest asks for root pages 1 .. ceil(MaxNum / PageSize) at most,
\* and each reply thread for reply pages
\* 1 .. ceil(max_replies / sub_comment_page_size) at most.
C16_PagesWithinLimit ==
    /\ hpc = "paging" => root_page_num <= MaxPages(MaxNum, PageSize)
    /\ \A t \in SubTasks :
          sub_pc[t] = "fetching"
              => sub_page_num[t] <= MaxPages(max_replies, sub_comment_page_size)

\* the last root page and the last reply page of a thread are being asked for
C16_Witness ==
    /\ hpc = "paging"
    /\ root_page_num = MaxPages(MaxNum, PageSize)
    /\ root_page_num > 1
    /\ \E t \in Created :
          /\ sub_pc[t] = "fetching"
          /\ sub_page_num[t] = MaxPages(max_replies, sub_comment_page_size)
          /\ sub_page_num[t] > 1

\* C20 (the claim as stated): when a root page has used up its retries, every
\* root comment accepted before is in the returned list together with the
\* replies fetched for it; and the replies a thread collected before one of
\* its pages used up its retries are in the returned list, with its root.
C20_SoftEndKeepsPartialResults ==
    hpc = "done"
        => /\ root_end = "failed"
                 => /\ RootsOf(final_comment_list) = main_comments_data
                    /\ \A i \in 1..Len(main_comments_data) :
                          HasReplyTask(main_comments_data[i])
                              => final_comment_list[i].replies
                                     = gathered_results[TaskOf(i)]
           /\ \A i \in 1..Len(main_comments_data) :
                 (HasReplyTask(main_comments_data[i])
                      /\ sub_pc[TaskOf(i)] = "failed")
                     => final_comment_list[i].replies = sub_comments[TaskOf(i)]

\* C21 (the claim as stated): a soft end surfaces no error: when a root page
\* has used up its retries, the first page included, result['error'] is unset
\* when get_comments returns.
C21_SoftEndSurfacesNoError ==
    (hpc = "done" /\ root_end = "failed") => comments_error = NONE

\* C21 (amended): a soft end on a root page after the first surfaces no
\* error; a soft end on the first root page sets result['error'] to the
\* 'initial fetch' error, and no comment is returned.  A loop that ends
\* otherwise sets no error either.
C21_SoftEndAfterFirstPageSurfacesNoError ==
    hpc = "done"
        => /\ (root_end = "failed" /\ root_page_num > 1) => comments_error = NONE
           /\ (root_end = "failed" /\ root_page_num = 1)
                 => /\ comments_error = "initial_fetch"
                    /\ final_comment_list = <<>>
           /\ RootRequestsOk => comments_error = NONE

\* the second root page used up its retries; the comments of the first are
\* returned
C21_Witness ==
    /\ hpc = "done"
    /\ root_end = "failed"
    /\ root_page_num = 2
    /\ comments_error = NONE
    /\ final_comment_list # <<>>

\* a reply task has ended with an exception
SomeTaskRaised == \E t \in Created : sub_pc[t] = "raised"

\* C22 (the claim as stated): when a reply task ends with an exception,
\* get_comments returns without an error, the root comment the task was
\* created for is emitted with no replies, and every other root comment is
\* emitted with the replies its own task returned.
C22_TaskExceptionIsIsolated ==
    (hpc = "done" /\ SomeTaskRaised)
        => /\ comments_error = NONE
           /\ RootsOf(final_comment_list) = main_comments_data
           /\ \A i \in 1..Len(main_comments_data) :
                 HasReplyTask(main_comments_data[i])
                     => final_comment_list[i].replies
                            = IF sub_pc[TaskOf(i)] = "raised"
                              THEN <<>> ELSE sub_comments[TaskOf(i)]

\* C26: a root comment shorter than the minimum length is rejected at
\* ingestion: it is never among the accepted or the emitted comments, and no
\* reply task is created for it even when its rcount is above 0: the tasks
\* are those of the accepted threaded comments, in their order.
C26_ShortRootIsRejectedAtIngestion ==
    /\ \A i \in 1..Len(main_comments_data) : main_comments_data[i].long
    /\ \A i \in 1..Len(final_comment_list) : final_comment_list[i].root.long
    /\ tasks_for_sub_comments = NewTaskRpids(Passing(main_comments_data))
    /\ \A t \in SubTasks : t > Len(tasks_for_sub_comments) => sub_pc[t] = "unstarted"
    /\ \A t \in Created : tasks_for_sub_comments[t] # "c"

\* every page asked for held comments and one of them held none that passes:
\* its comments were short ones with replies, and one comment is emitted
C26_Witness ==
    /\ hpc = "done"
    /\ root_end = "max_pages"
    /\ Len(final_comment_list) = 1
    /\ Len(final_comment_list) < root_page_num - 1

-----------------------------------------------------------------------------
(***************************************************************************)
(* Properties of the retry loops, checked under SpecRequest.               *)
(***************************************************************************)

\* the failures the loops are meant to retry
Retryable == {"neterror", "s412", "error", "undecodable"}

AllIn(seq, S) == \A i \in 1..Len(seq) : seq[i] \in S

\* the delay after attempt n is n times the base delay
LinearDelays == \A n \in 1..Len(rq_delays) : rq_delays[n] = n

\* C17 (the claim as stated): a root-page or reply-page request that fails on
\* every attempt, whatever the retryable failure, is attempted exactly
\* max_retries times, and the delay after attempt n is n times the base delay.
C17_PageRetriedMaxRetriesTimes ==
    (rq_kind \in {"main", "sub"} /\ AllIn(rq_outcomes, Retryable))
        => /\ Len(rq_outcomes) <= max_retries
           /\ rq_pc = "ended" => Len(rq_outcomes) = max_retries
           /\ LinearDelays

\* C18: when _get_aid_from_bvid receives the 'not found' code it returns at
\* once, without a backoff and without another request (one request in all
\* when it is the first answer), and get_comments returns its result with
\* error set and no comments before any page is asked for.
C18_NotFoundIsTerminal ==
    (rq_kind = "aid" /\ rq_outcomes # <<>> /\ Last(rq_outcomes) = "closed")
        => /\ rq_pc = "ended"
           /\ rq_result = "None"
           /\ rq_caller = "error_result"
           /\ Len(rq_delays) = Len(rq_outcomes) - 1
           /\ Head(rq_outcomes) = "closed"
                 => (Len(rq_outcomes) = 1 /\ rq_delays = <<>>)

\* 'not found' is the first answer, with retries configured
C18_Witness ==
    /\ rq_kind = "aid"
    /\ max_retries > 1
    /\ rq_outcomes = <<"closed">>
    /\ rq_pc = "ended"

\* the failures of resolve the claim is about
ResolveFailures == {"neterror", "s412", "error"}

\* C19: while _get_aid_from_bvid meets transport errors and codes other than
\* 'not found', it sleeps n times the base delay after attempt n and tries
\* again, max_retries attempts at most; when all fail, get_comments returns
\* its result with error set and no comments before any page is asked for;
\* when an attempt succeeds, it goes on to the page loop.
C19_ResolveRetriedLinearly ==
    (rq_kind = "aid" /\ AllIn(rq_outcomes, ResolveFailures \cup {"ok"}))
        => /\ Len(rq_outcomes) <= max_retries
           /\ LinearDelays
           /\ rq_pc = "backoff" => Len(rq_delays) = Len(rq_outcomes)
           /\ (rq_outcomes # <<>> /\ Last(rq_outcomes) # "ok"
                   /\ Len(rq_outcomes) < max_retries)
                 => rq_pc \in {"backoff", "inflight"}
           /\ (rq_pc = "ended" /\ Last(rq_outcomes) # "ok")
                 => /\ Len(rq_outcomes) = max_retries
                    /\ rq_result = "None"
                    /\ rq_caller = "error_result"
           /\ (rq_outcomes # <<>> /\ Last(rq_outcomes) = "ok")
                 => /\ rq_pc = "ended"
                    /\ rq_result = "data"
                    /\ rq_caller = "paginating"

\* two failures, two growing delays, then the aid
C19_Witness ==
    /\ rq_kind = "aid"
    /\ Len(rq_outcomes) = 3
    /\ AllIn(SubSeq(rq_outcomes, 1, 2), ResolveFailures)
    /\ rq_outcomes[3] = "ok"
    /\ rq_delays = <<1, 2>>
    /\ rq_caller = "paginating"

-----------------------------------------------------------------------------
(***************************************************************************)
(* Properties of BilibiliCommentsCrawler, checked under SpecCrawl.         *)
(***************************************************************************)

\* the requests that have been sent and not yet answered
InFlight == {t \in Tasks : tpc[t] = "inflight"}

\* C1: at every moment the requests in flight (resolve, root page and reply
\* page together) are at most the semaphore's capacity, however many reply
\* tasks have been started.
C1_InFlightAtMostCapacity ==
    Cardinality(InFlight) <= MaxConcurrentRequests

\* more tasks want a permit than there are permits, and every permit carries
\* a request in flight
C1_Witness ==
    /\ Cardinality(InFlight) = MaxConcurrentRequests
    /\ \E t \in Tasks : tpc[t] = "acquire"
    /\ ntasks >= MaxConcurrentRequests

\* the reply tasks that wait the random delay of a reply-page request
\* (line 225)
Sleepers == {t \in ReplyTasks : tpc[t] = "jitter"}

\* C28 (the claim as stated): the random delay of a reply-page request is
\* waited before the permit is acquired: no reply task holds a permit while
\* it waits that delay.
C28_NoPermitWhileWaitingDelay ==
    \A t \in Sleepers : holding[t] = 0

\* C28 (amended): the random delay of a reply-page request is waited after
\* the permit is acquired and before the request is sent: a reply task that
\* waits that delay holds a permit, which no other task can take meanwhile.
C28_PermitHeldWhileWaitingDelay ==
    /\ \A t \in Sleepers : holding[t] = 1
    /\ Cardinality(Sleepers) <= MaxConcurrentRequests - semaphore

\* a reply task waits its delay with the last permit while another task
\* waits for a permit
C28_Witness ==
    /\ semaphore = 0
    /\ \E t \in ReplyTasks : tpc[t] = "jitter"
    /\ \E t \in Tasks : tpc[t] = "acquire"


\* C23: with absent or empty credentials (async_load_cookies returned None)
\* no crawler is created for any video, so no resolve, root-page or
\* reply-page request is sent: the harvester of every job is absent and
\* returns no comment result, and every item of the accumulator (and of the
\* artifact of the timeout path, which holds the rendered items) carries the
\* placeholder in place of comments and an error.
WithoutComments(item) ==
    /\ item.comments = "placeholder"
    /\ item.comment_info_error = "not_attempted"

C23_NoCredentialsNoHarvest ==
    ~cookies =>
        /\ \A v \in Videos : /\ har[v] \in {"unstarted", "absent"}
                             /\ comment_info[v] = NoCommentInfo
        /\ \A i \in 1..Len(partial_results_list) :
               WithoutComments(partial_results_list[i])
        /\ artifact.kind = "TimeoutPartial" =>
               \A i \in 1..Len(artifact.items) : WithoutComments(artifact.items[i])

C23_Witness ==
    /\ ~cookies
    /\ pc = "returned"
    /\ artifact.kind = "Summary"
    /\ Len(partial_results_list) = MaxVideos
    /\ \A v \in Videos : har[v] = "absent"


\* C24: no exception crosses _arun: it never ends raised, whatever the
\* cookie loading, the search, the jobs, the summarizer and the timer do;
\* when it has ended it has returned one of its strings, and the failure is
\* in the string: an exception that left the operation is answered by the
\* error text, or by the timeout text when it is a TimeoutError (raised by
\* wait_for or by the collaborator itself); a search or cookie loading that
\* did not return a value is always answered by one of the two; and jobs
\* that all failed give the nothing-processed text (or the timeout text).
ArtifactKinds ==
    {"NoResults", "NoTasks", "NothingProcessed", "NothingToSummarize", "NothingFound",
     "Raw", "Summary", "TimeoutPartial", "TimeoutEmpty", "Error"}

C24_NoExceptionCrossesArun ==
    /\ pc # "raised"
    /\ pc = "returned" =>
          /\ artifact.kind \in ArtifactKinds
          /\ caught = "Exception" => artifact.kind = "Error"
          /\ caught = "TimeoutError" => Truncated(artifact)
          /\ searchOutcome \in {"pending", "raised", "cancelled"} =>
                caught \in Exceptions
          /\ (Jobs # {} /\ \A v \in Jobs : job[v] = "failed") =>
                artifact.kind \in {"NothingProcessed", "TimeoutEmpty"}

\* the timer fired during the search and browser.close() raised while the
\* cancellation unwound: _arun returned the error text
C24_Witness ==
    /\ pc = "returned"
    /\ searchOutcome = "cancelled"
    /\ timedOut
    /\ caught = "Exception"
    /\ artifact.kind = "Error"


\* C29: the finished jobs are collected in the order they finished: the jobs
\* that finished are those the loop has taken, followed by those waiting in
\* as_completed's queue; the accumulator holds the items of the taken jobs
\* that succeeded, in that order, whatever the other jobs are doing, and the
\* artifact lists its items in the accumulator's order.
OkJobs(seq) == SelectSeq(seq, LAMBDA v : job[v] = "ok")

C29_AccumulatorInCompletionOrder ==
    /\ yielded <= Len(completion)
    /\ completion = SubSeq(completion, 1, yielded) \o doneq
    /\ AccVideos = OkJobs(SubSeq(completion, 1, yielded))
    /\ (pc = "returned" /\ artifact.kind \in {"Summary", "TimeoutPartial"}) =>
           VideosOf(artifact) = AccVideos

\* the second video discovered is in the accumulator, ahead of the first,
\* which is still running
C29_Witness ==
    /\ pc = "collecting"
    /\ AccVideos = <<2>>
    /\ job[1] = "running"


\* C30: a run only moves forward, from the search (discovering) to the loop
\* over the jobs (fanned out), to the summary or the timeout branch, to the
\* return.  The artifact, and with it the timeout mark, is set once, by the
\* step that returns, and never changed; the timer fires at most once; and
\* after it fired the search result is kept, no job that ended runs again
\* and no job that was not started is started.
Rank(p) ==
    CASE p = "idle" -> 0
      [] p = "searching" -> 1
      [] p = "collecting" -> 2
      [] p = "summarizing" -> 3
      [] OTHER -> 4

C30_RunMovesOnlyForward ==
    [][ /\ Rank(pc') >= Rank(pc)
        /\ artifact' # artifact =>
              /\ artifact = NoArtifact
              /\ pc # "returned"
              /\ pc' = "returned"
        /\ (pc' = "returned" /\ pc # "returned") => artifact' # NoArtifact
        /\ timedOut =>
              /\ timedOut'
              /\ atDeadline' = atDeadline
              /\ search_results_urls' = search_results_urls
              /\ searchOutcome' = searchOutcome
              /\ \A v \in Videos :
                    job[v] # "running" => job'[v] = job[v]
        /\ \A v \in Videos :
              job[v] \in {"ok", "failed"} => job'[v] = job[v]
      ]_vars

\* a run that went through the search, the jobs and the summary, was cut
\* there by the timer and returned the timeout text
C30_Witness ==
    /\ pc = "returned"
    /\ timedOut
    /\ atDeadline.at = "summarizing"
    /\ artifact.kind = "TimeoutPartial"
    /\ searchOutcome = "returned"
    /\ \A v \in Jobs : job[v] \in {"ok", "failed"}


\* C25: get_comments called again for a video whose resolve request is
\* answered 'not found' returns what it returned before: the resolve error
\* and no comments.  When such a call has returned, the crawler is as it was
\* made: every permit is free, no aid was obtained (no page was asked for),
\* and no comment and no reply task is kept.
ResolutionError == [error |-> "no_aid", comments |-> 0, free |-> MaxConcurrentRequests]

AsConstructed ==
    /\ semaphore = MaxConcurrentRequests
    /\ phase = "resolve"
    /\ main_comments = 0
    /\ ntasks = 0
    /\ \A t \in ReplyTasks : tpc[t] = "unstarted" /\ fetched_count[t] = 0

C25_NotFoundAgainSameResult ==
    /\ \A i \in 1..Len(earlier_results) :
          earlier_results[i].error # "no_bvid" => earlier_results[i] = ResolutionError
    /\ (tpc[0] = "done" /\ result_error # "no_bvid") =>
          /\ Returned = ResolutionError
          /\ AsConstructed

\* the second of two calls for the video has returned
C25_Witness ==
    /\ Len(earlier_results) = 1
    /\ earlier_results[1] = ResolutionError
    /\ tpc[0] = "done"
    /\ Returned = ResolutionError
    /\ attempt[0] > 0


\* C31: when the answer to a root-page or reply-page request carries the
\* 'closed / not found' code, the request loop ends there: no backoff is
\* slept and the page is not asked for again (it was asked for once when
\* that is the first answer); the page loop is left with the root comments
\* collected so far, the thread returns the replies collected so far.
C31_ClosedPageEndsWithoutRetry ==
    (rq_kind \in {"main", "sub"} /\ rq_outcomes # <<>> /\ Last(rq_outcomes) = "closed")
        => /\ rq_pc = "ended"
           /\ rq_result = "None"
           /\ rq_caller = IF rq_kind = "main" THEN "page_loop_left"
                                              ELSE "collected_returned"
           /\ Len(rq_delays) = Len(rq_outcomes) - 1
           /\ \A i \in 1..(Len(rq_outcomes) - 1) : rq_outcomes[i] # "closed"
           /\ Head(rq_outcomes) = "closed"
                 => (Len(rq_outcomes) = 1 /\ rq_delays = <<>>)

\* the code is the first answer to a page request, with retries configured
C31_Witness ==
    /\ rq_kind \in {"main", "sub"}
    /\ max_retries > 1
    /\ rq_outcomes = <<"closed">>
    /\ rq_pc = "ended"


\* the accepted root comments with replies (rcount > 0)
ThreadedRoots == SelectSeq(main_comments_data, LAMBDA c : c.threaded)

\* C32 (the claim as stated): in every state of get_comments, and so
\* whenever the next root page is asked for, the reply tasks created are one
\* for each accepted root comment with replies, in their order, and each has
\* been started; there is none for a root without replies, and none beyond
\* the root cap.
C32_OneReplyTaskPerThreadedRoot ==
    /\ Len(main_comments_data) <= MaxNum
    /\ Len(tasks_for_sub_comments) = Len(ThreadedRoots)
    /\ \A i \in 1..Len(ThreadedRoots) :
          tasks_for_sub_comments[i] = ThreadedRoots[i].rpid
    /\ \A t \in SubTasks :
          sub_pc[t] # "unstarted" <=> t <= Len(tasks_for_sub_comments)

\* the accepted root comments with replies that carry an rpid
ThreadedRootsWithId ==
    SelectSeq(main_comments_data, LAMBDA c : c.threaded /\ c.rpid # NoRpid)

\* C32 (amended): in every state of get_comments, and so whenever the next
\* root page is asked for, the reply tasks created are one for each accepted
\* root comment that has replies and carries an rpid, in their order, and
\* each has been started; there is none for a root without replies, none
\* for a root without an rpid, and none beyond the root cap.
C32_OneReplyTaskPerThreadedRootWithId ==
    /\ Len(main_comments_data) <= MaxNum
    /\ Len(tasks_for_sub_comments) = Len(ThreadedRootsWithId)
    /\ \A i \in 1..Len(ThreadedRootsWithId) :
          tasks_for_sub_comments[i] = ThreadedRootsWithId[i].rpid
    /\ \A t \in SubTasks :
          sub_pc[t] # "unstarted" <=> t <= Len(tasks_for_sub_comments)

\* the second root page is about to be asked for; of the two roots with
\* replies accepted from the first, the one that carries an rpid has its
\* task and the one without has none
C32_Witness ==
    /\ hpc = "paging"
    /\ root_page_num = 2
    /\ Len(main_comments_data) = 2
    /\ main_comments_data[1].threaded /\ main_comments_data[1].rpid # NoRpid
    /\ main_comments_data[2].threaded /\ main_comments_data[2].rpid = NoRpid
    /\ tasks_for_sub_comments = <<main_comments_data[1].rpid>>
    /\ sub_pc[1] = "fetching"
    /\ sub_pc[2] = "unstarted"


\* C33: until _get_aid_from_bvid has returned an aid no root page has been
\* asked for and no reply task exists; the root pages asked for are 1, 2,
\* 3, ... in this order, one request at a time, and page n+1 is asked for
\* only when page n was answered with at least one comment.
C33_RootPagesInOrderAfterResolve ==
    /\ phase = "resolve" =>
          /\ root_pages_asked = <<>>
          /\ tpc[0] # "jitter"
          /\ \A t \in ReplyTasks : tpc[t] = "unstarted"
    /\ root_pages_asked = [i \in 1..Len(root_pages_asked) |-> i]
    /\ Len(root_pages_asked) <= root_pages_served + 1
    /\ (phase = "page" /\ tpc[0] = "inflight") =>
          /\ root_pages_asked # <<>>
          /\ Last(root_pages_asked) = page_num[0]

\* the second root page is being asked for, after the first was answered
\* with comments
C33_Witness ==
    /\ phase = "page"
    /\ tpc[0] = "inflight"
    /\ root_pages_asked = <<1, 2>>
    /\ root_pages_served = 1


\* C34: one job is started for each video of the search result and for no
\* other; a job finishes once and stays finished, failed or not: it is not
\* run again; so the accumulator holds each video at most once, only videos
\* whose job succeeded, and no more items than the search returned.
NoRepeats(seq) == \A i, j \in 1..Len(seq) : seq[i] = seq[j] => i = j

C34_OneJobPerVideoNeverRestarted ==
    /\ \A v \in Videos : job[v] # "unstarted" <=> v \in Jobs
    /\ NoRepeats(completion)
    /\ \A v \in Range(completion) : job[v] \in {"ok", "failed"}
    /\ \A v \in Videos : job[v] \in {"ok", "failed"} => v \in Range(completion)
    /\ NoRepeats(AccVideos)
    /\ \A v \in Range(AccVideos) : v \in Jobs /\ job[v] = "ok"
    /\ Len(partial_results_list) <= Len(search_results_urls)
    /\ yielded <= Len(search_results_urls)

\* the run has returned; one job failed and was not run again, the other
\* is the only item
C34_Witness ==
    /\ pc = "returned"
    /\ Len(search_results_urls) = 2
    /\ \E v \in Jobs : job[v] = "failed" /\ har[v] = "raised"
    /\ Len(partial_results_list) = 1
    /\ yielded = 2


\* C35 (the claim as stated): whichever step of BilibiliSearcher.search
\* fails, the search returns the empty list and raises nothing.
C35_SearchNeverRaises == searchOutcome # "raised"


\* the tasks suspended at `async with self.semaphore`
Waiters == {t \in Tasks : tpc[t] = "acquire"}

\* a step a task takes by itself: a permit is handed to it, a sleep ends,
\* gather returns
OwnStep ==
    \/ \E t \in Tasks : Acquire(t) \/ JitterDone(t) \/ BackoffDone(t)
    \/ GatherDone

\* C36: the permits are conserved and the tasks cannot deadlock on them: a
\* task holds at most one permit and the permits taken are those the tasks
\* hold; a task that waits for a permit holds none; a task that has ended,
\* by a return (a page, a soft end, the last retry, an unexpected exception)
\* or by a cancellation, holds none; while a task waits for a permit a
\* request is in flight or a task can take a step by itself; and when
\* get_comments has returned every reply task has ended and all permits are
\* free, as they are when it was cancelled and every reply task has ended.
C36_PermitsConserved ==
    /\ semaphore \in 0..MaxConcurrentRequests
    /\ \A t \in Tasks : holding[t] \in {0, 1}
    /\ MaxConcurrentRequests - semaphore = PermitsOf(Tasks)
    /\ \A t \in Waiters : holding[t] = 0
    /\ \A t \in Tasks :
          tpc[t] \in {"unstarted", "done", "cancelled"} => holding[t] = 0
    /\ Waiters # {} => (InFlight # {} \/ ENABLED OwnStep)
    /\ tpc[0] = "done" =>
          /\ semaphore = MaxConcurrentRequests
          /\ \A t \in ReplyTasks : tpc[t] \in {"unstarted", "done"}
          /\ \A t \in 1..ntasks : tpc[t] = "done"
    /\ (tpc[0] = "cancelled" /\ \A t \in 1..ntasks : tpc[t] \notin Awaits)
          => semaphore = MaxConcurrentRequests

\* get_comments was cancelled while it gathered its reply tasks: every
\* permit was held by a reply task the cancellation ended, one of them in a
\* retry, another reply task was ended while it waited for a permit, and
\* all permits are free
C36_Witness ==
    /\ tpc[0] = "cancelled"
    /\ Cardinality(cancelled_holding) = MaxConcurrentRequests
    /\ \E t \in cancelled_holding : attempt[t] > 0
    /\ \E t \in 1..ntasks : tpc[t] = "cancelled" /\ t \notin cancelled_holding
    /\ semaphore = MaxConcurrentRequests


\* C37: with pages of at most the size asked for, a root page is asked
\* for only while fewer than MaxNum root comments are accepted (so the cap
\* test made after a page, line 389-392, never finds the cap met), and a
\* reply task asks for a page of its thread, the first or a later one, only
\* while it has collected fewer than max_replies replies.
C37_NoRequestOnceCapIsMet ==
    /\ hpc = "paging" => Len(main_comments_data) < MaxNum
    /\ root_end # "cap"
    /\ \A t \in Created :
          sub_pc[t] = "fetching" => Len(sub_comments[t]) < max_replies
    /\ Len(main_comments_data) <= MaxNum
    /\ \A t \in Created : Len(sub_comments[t]) <= max_replies

\* the last root page the limit allows is asked for, one comment short of
\* the cap, while a reply task that has collected replies from the first
\* page of its thread asks for the second
C37_Witness ==
    /\ hpc = "paging"
    /\ root_page_num = MaxPages(MaxNum, PageSize)
    /\ Len(main_comments_data) = MaxNum - 1
    /\ \E t \in Created :
          /\ sub_pc[t] = "fetching"
          /\ sub_page_num[t] = 2
          /\ sub_comments[t] # <<>>


\* C38: when every request is answered, get_comments returns, and it has
\* sent at most MaxRetries requests for the resolve, for each root page up to
\* the page limit and for each reply page, up to its limit, of at most
\* MaxNum reply tasks.
Ceil(n, d) == (n + d - 1) \div d

RequestBound ==
    MaxRetries * (1 + Ceil(MaxNum, PageSize)
                    + MaxNum * Ceil(MaxRepliesPerComment, sub_comment_page_size))

C38_HarvestTerminatesWithinBound ==
    /\ <>(tpc[0] = "done")
    /\ [](requests_sent <= RequestBound)

\* get_comments has returned after every request it may send
C38_Witness ==
    /\ tpc[0] = "done"
    /\ requests_sent = RequestBound


\* the failures a response reports: a non-200 status, a nonzero API code, a
\* payload that cannot be decoded; and those of the transport
ResponseFailures == {"s412", "error", "undecodable"}
TransportFailures == {"neterror"}

\* the current attempt was answered with one of failures while a retry was
\* left: the backoff is waited, with the permit as held says
BacksOffAfter(failures, held) ==
    ( /\ rq_outcomes # <<>>
      /\ Len(rq_outcomes) = rq_attempt + 1
      /\ Last(rq_outcomes) \in failures
      /\ retry_left(rq_attempt, max_retries) )
        => (rq_pc = "backoff" /\ rq_permit = held)

\* C39 (the claim as stated): after a failure reported in a response of a
\* resolve, root-page or reply-page request the backoff delay is waited while
\* the task still holds its permit; after a transport error or timeout the
\* permit is released before the backoff is waited.
C39_BackoffHoldsPermitUnlessTransport ==
    /\ BacksOffAfter(ResponseFailures, TRUE)
    /\ BacksOffAfter(TransportFailures, FALSE)


\* the reply tasks that have not ended
Unfinished == {t \in Created : sub_pc[t] \notin {"returned", "failed", "raised"}}

\* what task t ended with is in the result: the comment of the root it was
\* created for carries the replies gather returned for it
OutcomeTaken(t) ==
    \E i \in 1..Len(main_comments_data) :
        /\ HasReplyTask(main_comments_data[i])
        /\ TaskOf(i) = t
        /\ i <= Len(final_comment_list)
        /\ final_comment_list[i].replies = gathered_results[t]

\* C40 (the claim as stated): the reply tasks run while root pages are still
\* requested, and when get_comments returns a result after the root
\* pagination every reply task it created has ended and what each of them
\* ended with has been taken into the result.
C40_FanOutIsJoined ==
    hpc = "done"
        => /\ Unfinished = {}
           /\ \A t \in Created : OutcomeTaken(t)

=============================================================================
